---- MODULE Spec2Model ----
(***************************************************************************)
(* A model of fswalker: the path policy (NormalizePath, isExcluded), the   *)
(* reporter (Compare, ReadLastGoodWalk, UpdateReviewProto) and the walker  *)
(* (Walker.Run with its workers and its error collector).                  *)
(*                                                                         *)
(* A Go string is a sequence of one-character strings: "/a/" is            *)
(* <<"/", "a", "/">>.                                                      *)
(***************************************************************************)
EXTENDS Integers, Sequences, FiniteSets, TLC

\* ------------------------------------------------------------------------
\* Bounds of the path-policy specification.
MaxPathLen == 4
MaxPrefixLen == 3
MaxExcl == 2

\* filepath.Separator on the platforms the walker is built for.
Separator == "/"

\* The characters paths are drawn from.
PathChars == {Separator, "a"}

RECURSIVE SeqsUpTo(_, _)
SeqsUpTo(S, n) ==
    IF n = 0 THEN {<<>>}
    ELSE LET shorter == SeqsUpTo(S, n - 1)
         IN shorter \cup {Append(s, c) : s \in {t \in shorter : Len(t) = n - 1}, c \in S}

\* ------------------------------------------------------------------------
\* String helpers of the Go standard library.

\* strings.HasPrefix
HasPrefix(s, prefix) ==
    /\ Len(prefix) <= Len(s)
    /\ SubSeq(s, 1, Len(prefix)) = prefix

\* strings.Split(s, "/"): the pieces between separators, empty pieces kept.
RECURSIVE SplitFrom(_, _, _)
SplitFrom(s, i, cur) ==
    IF i > Len(s) THEN <<cur>>
    ELSE IF s[i] = Separator THEN <<cur>> \o SplitFrom(s, i + 1, <<>>)
    ELSE SplitFrom(s, i + 1, Append(cur, s[i]))

Split(s) == SplitFrom(s, 1, <<>>)

\* The path elements filepath.Clean keeps: empty elements and "." are dropped,
\* ".." removes the element before it (or is dropped at the root, or is kept
\* at the front of a relative path).
RECURSIVE CleanElems(_, _, _, _)
CleanElems(elems, i, rooted, out) ==
    IF i > Len(elems) THEN out
    ELSE LET e == elems[i]
         IN IF e = <<>> \/ e = <<".">>
            THEN CleanElems(elems, i + 1, rooted, out)
            ELSE IF e = <<".", ".">>
            THEN IF Len(out) > 0 /\ out[Len(out)] # <<".", ".">>
                 THEN CleanElems(elems, i + 1, rooted, SubSeq(out, 1, Len(out) - 1))
                 ELSE IF rooted
                 THEN CleanElems(elems, i + 1, rooted, out)
                 ELSE CleanElems(elems, i + 1, rooted, Append(out, e))
            ELSE CleanElems(elems, i + 1, rooted, Append(out, e))

RECURSIVE JoinElems(_, _)
JoinElems(elems, i) ==
    IF i > Len(elems) THEN <<>>
    ELSE IF i = Len(elems) THEN elems[i]
    ELSE elems[i] \o <<Separator>> \o JoinElems(elems, i + 1)

\* filepath.Clean
Clean(p) ==
    IF p = <<>> THEN <<".">>
    ELSE LET rooted == p[1] = Separator
             joined == JoinElems(CleanElems(Split(p), 1, rooted, <<>>), 1)
         IN IF rooted THEN <<Separator>> \o joined
            ELSE IF joined = <<>> THEN <<".">> ELSE joined

\* The index of the last separator of p, 0 when it has none.
RECURSIVE LastSep(_, _)
LastSep(p, i) ==
    IF i = 0 THEN 0
    ELSE IF p[i] = Separator THEN i
    ELSE LastSep(p, i - 1)

\* filepath.Dir
Dir(p) == Clean(SubSeq(p, 1, LastSep(p, Len(p))))

\* os.FileInfo.Name of the entry at p, as Lstat and ReadDir give it: the
\* separators at the end are dropped, but never the first character, and
\* what follows the last separator before the last character is the name.
\* The name of "/" is "/".
BaseNameOf(p) ==
    IF p = <<>> THEN <<>>
    ELSE LET keep == {i \in 1..Len(p) : p[i] # Separator}
             n == IF keep = {} THEN 1 ELSE CHOOSE i \in keep : \A j \in keep : j <= i
             t == SubSeq(p, 1, n)
         IN SubSeq(t, LastSep(t, n - 1) + 1, n)

\* ------------------------------------------------------------------------
\* fswalker.go

\* A faulty variant of NormalizePath: the separator is appended to the path
\* as given, neither cleaned nor looked at.
NormalizePathRaw(p, d) == IF d THEN Append(p, Separator) ELSE p

\* NormalizePath: filepath.Clean, then a separator at the end of a directory
\* that has none.
NormalizePath(p, d) ==
    LET c == Clean(p)
    IN IF d /\ c[Len(c)] # Separator THEN Append(c, Separator) ELSE c

\* A faulty variant of isExcluded: the literal string-prefix match.
RECURSIVE isExcludedLiteral(_, _)
isExcludedLiteral(p, excl) ==
    IF excl = <<>> THEN FALSE
    ELSE IF HasPrefix(p, Head(excl)) THEN TRUE
    ELSE isExcludedLiteral(p, Tail(excl))

\* isExcluded: the loop over the prefixes, returning at the first match.
\* e[len(e)-1] is read without a length check, so the prefixes are non-empty.
RECURSIVE isExcluded(_, _)
isExcluded(p, excl) ==
    IF excl = <<>> THEN FALSE
    ELSE LET e == Head(excl)
         IN IF p = e THEN TRUE
            ELSE IF /\ e[Len(e)] = Separator
                    /\ HasPrefix(Append(Dir(p), Separator), e)
            THEN TRUE
            ELSE isExcluded(p, Tail(excl))

\* ------------------------------------------------------------------------
\* The data model (proto/fswalker). A nil pointer is the empty sequence and
\* a non-nil pointer to x is <<x>>, like a repeated field of at most one element.

Nil == <<>>
Some(x) == <<x>>

\* timestamppb.Timestamp and its AsTime: a nil timestamp reads as the epoch.
Time(sec, nanos) == [Seconds |-> sec, Nanos |-> nanos]
AsTime(ts) == IF ts = Nil THEN Time(0, 0) ELSE ts[1]

\* time.Time.Equal and time.Time.After
TimeEqual(t, u) == t.Seconds = u.Seconds /\ t.Nanos = u.Nanos
TimeAfter(t, u) ==
    \/ t.Seconds > u.Seconds
    \/ t.Seconds = u.Seconds /\ t.Nanos > u.Nanos

\* A faulty variant of the format: the text carries the nanoseconds too.
FormatTimeExact(t) == <<t.Seconds, t.Nanos>>

\* time.Time.Format(timeReportFormat): the layout has no fractional seconds,
\* so the text carries the seconds only.
FormatTime(t) == t.Seconds

\* The byte order of Go strings, on the characters the model uses.
CharRank(c) ==
    CASE c = "." -> 1
      [] c = "/" -> 2
      [] c = "a" -> 3
      [] c = "b" -> 4
      [] c = "c" -> 5

RECURSIVE StrLess(_, _)
StrLess(s, t) ==
    IF t = <<>> THEN FALSE
    ELSE IF s = <<>> THEN TRUE
    ELSE IF Head(s) = Head(t) THEN StrLess(Tail(s), Tail(t))
    ELSE CharRank(Head(s)) < CharRank(Head(t))

\* ------------------------------------------------------------------------
\* reporter.go: the field-level diff. A diff line "label: b => a" is the
\* record [label, before, after].

Line(label, b, a) == [label |-> label, before |-> b, after |-> a]

\* timestampDiff: "" (here <<>>) when both are nil or the instants are equal,
\* else the two formatted instants.
timestampDiff(bt, at) ==
    IF bt = Nil /\ at = Nil THEN <<>>
    ELSE IF TimeEqual(AsTime(bt), AsTime(at)) THEN <<>>
    ELSE <<FormatTime(AsTime(bt)), FormatTime(AsTime(at))>>

diffFileInfo(fib, fia) ==
    LET name == IF fib.Name # fia.Name THEN <<Line("name", fib.Name, fia.Name)>> ELSE <<>>
        size == IF fib.Size # fia.Size THEN <<Line("size", fib.Size, fia.Size)>> ELSE <<>>
        mode == IF fib.Mode # fia.Mode THEN <<Line("mode", fib.Mode, fia.Mode)>> ELSE <<>>
        isDir == IF fib.IsDir # fia.IsDir THEN <<Line("is_dir", fib.IsDir, fia.IsDir)>> ELSE <<>>
        diff == timestampDiff(fib.Modified, fia.Modified)
        mtime == IF fib.Modified = Nil /\ fia.Modified = Nil THEN <<>>
                 ELSE IF diff # <<>> THEN <<Line("mtime", diff[1], diff[2])>>
                 ELSE <<>>
    IN name \o size \o mode \o isDir \o mtime

\* A faulty variant of diffFileStat: the gid is not compared.
diffFileStatNoGid(fsb, fsa) ==
    IF fsb = Nil /\ fsa = Nil THEN [panic |-> FALSE, diffs |-> <<>>]
    ELSE IF fsb = Nil \/ fsa = Nil THEN [panic |-> TRUE, diffs |-> <<>>]
    ELSE LET b == fsb[1]
             a == fsa[1]
             uid == IF b.Uid # a.Uid THEN <<Line("uid", b.Uid, a.Uid)>> ELSE <<>>
             cdiff == timestampDiff(b.Ctime, a.Ctime)
             mdiff == timestampDiff(b.Mtime, a.Mtime)
             ctime == IF cdiff = <<>> THEN <<>>
                      ELSE IF mdiff # cdiff THEN <<Line("ctime", cdiff[1], cdiff[2])>>
                      ELSE <<>>
         IN [panic |-> FALSE, diffs |-> uid \o ctime]

\* diffFileStat: [panic, diffs]. fsb.Uid is read after the check that both
\* are nil, so exactly one nil Stat is a nil pointer dereference.
diffFileStat(fsb, fsa) ==
    IF fsb = Nil /\ fsa = Nil THEN [panic |-> FALSE, diffs |-> <<>>]
    ELSE IF fsb = Nil \/ fsa = Nil THEN [panic |-> TRUE, diffs |-> <<>>]
    ELSE LET b == fsb[1]
             a == fsa[1]
             uid == IF b.Uid # a.Uid THEN <<Line("uid", b.Uid, a.Uid)>> ELSE <<>>
             gid == IF b.Gid # a.Gid THEN <<Line("gid", b.Gid, a.Gid)>> ELSE <<>>
             cdiff == timestampDiff(b.Ctime, a.Ctime)
             mdiff == timestampDiff(b.Mtime, a.Mtime)
             ctime == IF cdiff = <<>> THEN <<>>
                      ELSE IF mdiff # cdiff THEN <<Line("ctime", cdiff[1], cdiff[2])>>
                      ELSE <<>>
         IN [panic |-> FALSE, diffs |-> uid \o gid \o ctime]

\* A faulty variant of the fingerprint part: a fingerprint that is new in
\* after is reported as well.
diffFingerprintSymmetric(before, after) ==
    IF Len(before.Fingerprint) > 0
    THEN LET fb == before.Fingerprint[1]
         IN IF Len(after.Fingerprint) = 0
            THEN <<Line("fingerprint", fb.Value, "")>>
            ELSE LET fa == after.Fingerprint[1]
                 IN (IF fb.Method # fa.Method
                     THEN <<Line("fingerprint-method", fb.Method, fa.Method)>>
                     ELSE <<>>)
                    \o (IF fb.Value # fa.Value
                        THEN <<Line("fingerprint", fb.Value, fa.Value)>>
                        ELSE <<>>)
    ELSE IF Len(after.Fingerprint) > 0
    THEN <<Line("fingerprint", "", after.Fingerprint[1].Value)>>
    ELSE <<>>

\* The fingerprint part of diffFile.
diffFingerprint(before, after) ==
    IF Len(before.Fingerprint) > 0
    THEN LET fb == before.Fingerprint[1]
         IN IF Len(after.Fingerprint) = 0
            THEN <<Line("fingerprint", fb.Value, "")>>
            ELSE LET fa == after.Fingerprint[1]
                 IN (IF fb.Method # fa.Method
                     THEN <<Line("fingerprint-method", fb.Method, fa.Method)>>
                     ELSE <<>>)
                    \o (IF fb.Value # fa.Value
                        THEN <<Line("fingerprint", fb.Value, fa.Value)>>
                        ELSE <<>>)
    ELSE <<>>

\* slices.Sort(diffs): every line starts with its label and no two lines of
\* one diff share a label, so the byte order of the lines is the byte order
\* of "label:" ('-' sorts before ':').
LabelRank(label) ==
    CASE label = "ctime" -> 1
      [] label = "fingerprint-method" -> 2
      [] label = "fingerprint" -> 3
      [] label = "gid" -> 4
      [] label = "is_dir" -> 5
      [] label = "mode" -> 6
      [] label = "mtime" -> 7
      [] label = "name" -> 8
      [] label = "size" -> 9
      [] label = "uid" -> 10

RECURSIVE InsertLine(_, _)
InsertLine(l, sorted) ==
    IF sorted = <<>> THEN <<l>>
    ELSE IF LabelRank(l.label) < LabelRank(Head(sorted).label) THEN <<l>> \o sorted
    ELSE <<Head(sorted)>> \o InsertLine(l, Tail(sorted))

RECURSIVE SortLines(_)
SortLines(ls) ==
    IF ls = <<>> THEN <<>> ELSE InsertLine(Head(ls), SortLines(Tail(ls)))

\* A faulty variant of diffFile: the file format versions are not compared.
diffFileNoVersion(before, after) ==
    IF before.Path # after.Path
    THEN [panic |-> FALSE, err |-> "file paths don't match", diff |-> <<>>]
    ELSE LET fp == diffFingerprint(before, after)
             fi == diffFileInfo(before.Info, after.Info)
             fs == diffFileStat(before.Stat, after.Stat)
         IN IF fs.panic
            THEN [panic |-> TRUE, err |-> "", diff |-> <<>>]
            ELSE [panic |-> FALSE, err |-> "", diff |-> SortLines(fp \o fi \o fs.diffs)]

\* diffFile: [panic, err, diff]; diff is "" (here <<>>) when err is set.
diffFile(before, after) ==
    IF before.Version # after.Version
    THEN [panic |-> FALSE, err |-> "file format versions don't match", diff |-> <<>>]
    ELSE IF before.Path # after.Path
    THEN [panic |-> FALSE, err |-> "file paths don't match", diff |-> <<>>]
    ELSE LET fp == diffFingerprint(before, after)
             fi == diffFileInfo(before.Info, after.Info)
             fs == diffFileStat(before.Stat, after.Stat)
         IN IF fs.panic
            THEN [panic |-> TRUE, err |-> "", diff |-> <<>>]
            ELSE [panic |-> FALSE, err |-> "", diff |-> SortLines(fp \o fi \o fs.diffs)]

\* ------------------------------------------------------------------------
\* reporter.go: Compare.

\* A faulty variant of sanityCheck: the identifiers are not compared.
sanityCheckNoId(before, after) ==
    IF after = Nil
    THEN "either hostname, reviewFile and walkPath OR at least afterFile need to be specified"
    ELSE IF before # Nil /\ before[1].Version # after[1].Version
    THEN "versions don't match"
    ELSE IF before # Nil /\ before[1].Hostname # after[1].Hostname
    THEN "you're comparing apples and oranges"
    ELSE IF /\ before # Nil
            /\ TimeAfter(AsTime(before[1].StopWalk), AsTime(after[1].StartWalk))
    THEN "earlier Walk indicates it ended after later Walk has started"
    ELSE ""

\* A faulty variant of sanityCheck: a before walk that stopped at the instant the
\* after walk started is rejected too.
sanityCheckStrict(before, after) ==
    IF after = Nil
    THEN "either hostname, reviewFile and walkPath OR at least afterFile need to be specified"
    ELSE IF before # Nil /\ before[1].Id = after[1].Id
    THEN "ID of both Walks is the same"
    ELSE IF before # Nil /\ before[1].Version # after[1].Version
    THEN "versions don't match"
    ELSE IF before # Nil /\ before[1].Hostname # after[1].Hostname
    THEN "you're comparing apples and oranges"
    ELSE IF /\ before # Nil
            /\ ~TimeAfter(AsTime(after[1].StartWalk), AsTime(before[1].StopWalk))
    THEN "earlier Walk indicates it ended after later Walk has started"
    ELSE ""

\* sanityCheck: the error, "" for nil.
sanityCheck(before, after) ==
    IF after = Nil
    THEN "either hostname, reviewFile and walkPath OR at least afterFile need to be specified"
    ELSE IF before # Nil /\ before[1].Id = after[1].Id
    THEN "ID of both Walks is the same"
    ELSE IF before # Nil /\ before[1].Version # after[1].Version
    THEN "versions don't match"
    ELSE IF before # Nil /\ before[1].Hostname # after[1].Hostname
    THEN "you're comparing apples and oranges"
    ELSE IF /\ before # Nil
            /\ TimeAfter(AsTime(before[1].StopWalk), AsTime(after[1].StartWalk))
    THEN "earlier Walk indicates it ended after later Walk has started"
    ELSE ""

\* The map Compare builds from one inventory: every File is cloned, its path
\* normalized, and stored under that path; a later File replaces an earlier
\* one with the same normalized path.
NormalizedFile(f) == [f EXCEPT !.Path = NormalizePath(f.Path, f.Info.IsDir)]

walked(files) ==
    LET n == [i \in 1..Len(files) |-> NormalizedFile(files[i])]
        keys == {n[i].Path : i \in 1..Len(files)}
        last(k) == CHOOSE i \in 1..Len(files) :
                       /\ n[i].Path = k
                       /\ \A j \in (i + 1)..Len(files) : n[j].Path # k
    IN [k \in keys |-> n[last(k)]]

\* A faulty variant of the sort: the paths come out in descending order.
RECURSIVE SortPathsDescending(_)
SortPathsDescending(S) ==
    IF S = {} THEN <<>>
    ELSE LET m == CHOOSE x \in S : \A y \in S \ {x} : StrLess(y, x)
         IN <<m>> \o SortPathsDescending(S \ {m})

\* slices.SortFunc by path, on entries with pairwise different paths.
RECURSIVE SortPaths(_)
SortPaths(S) ==
    IF S = {} THEN <<>>
    ELSE LET m == CHOOSE x \in S : \A y \in S \ {x} : StrLess(x, y)
         IN <<m>> \o SortPaths(S \ {m})

ActionData(b, a, diff, err) == [Before |-> b, After |-> a, Diff |-> diff, Err |-> err]

\* metrics.Counter after the given Add calls: a metric exists once it was added to.
MetricNames ==
    {"before-files", "before-files-ignored", "before-files-removed", "file-diff-error",
     "before-files-modified", "after-files", "after-files-ignored", "after-files-created"}

CounterOf(counts) == [m \in {x \in DOMAIN counts : counts[x] > 0} |-> counts[m]]

\* A faulty variant of Compare's exclusion test: nothing is excluded from the report.
reportExcludedNever(p, exclude) == FALSE

\* The exclusion test of Compare's two loops.
reportExcluded(p, exclude) == isExcluded(p, exclude)

\* Compare: [kind, err, Added, Deleted, Modified, Errors, Counter], of kind
\* "error" (nil, err), "report" (the report, nil) or "panic".
NoReport(kind, err) ==
    [kind |-> kind, err |-> err, Added |-> <<>>, Deleted |-> <<>>, Modified |-> <<>>,
     Errors |-> <<>>, Counter |-> <<>>]

Compare(before, after, exclude) ==
    LET err == sanityCheck(before, after)
    IN IF err # "" THEN NoReport("error", err)
       ELSE
       LET walkedBefore == IF before # Nil THEN walked(before[1].File) ELSE <<>>
           walkedAfter == walked(after[1].File)
           kb == DOMAIN walkedBefore
           ka == DOMAIN walkedAfter
           keptB == {k \in kb : ~reportExcluded(k, exclude)}
           keptA == {k \in ka : ~reportExcluded(k, exclude)}
           both == {k \in keptB : k \in ka}
           d(k) == diffFile(walkedBefore[k], walkedAfter[k])
           removed == keptB \ ka
           failed == {k \in both : d(k).err # ""}
           modified == {k \in both : d(k).diff # <<>>}
           created == keptA \ kb
           seq(S, f(_)) == LET o == SortPaths(S) IN [i \in 1..Len(o) |-> f(o[i])]
           del(k) == ActionData(Some(walkedBefore[k]), Nil, <<>>, "")
           fail(k) == ActionData(Some(walkedBefore[k]), Some(walkedAfter[k]), d(k).diff, d(k).err)
           mod(k) == ActionData(Some(walkedBefore[k]), Some(walkedAfter[k]), d(k).diff, "")
           add(k) == ActionData(Nil, Some(walkedAfter[k]), <<>>, "")
           counts == [m \in MetricNames |->
                        CASE m = "before-files" -> Cardinality(kb)
                          [] m = "before-files-ignored" -> Cardinality(kb \ keptB)
                          [] m = "before-files-removed" -> Cardinality(removed)
                          [] m = "file-diff-error" -> Cardinality(failed)
                          [] m = "before-files-modified" -> Cardinality(modified)
                          [] m = "after-files" -> Cardinality(ka)
                          [] m = "after-files-ignored" -> Cardinality(ka \ keptA)
                          [] m = "after-files-created" -> Cardinality(created)]
       IN IF \E k \in both : d(k).panic
          THEN NoReport("panic", "invalid memory address or nil pointer dereference")
          ELSE [kind |-> "report", err |-> "",
                Added |-> seq(created, add), Deleted |-> seq(removed, del),
                Modified |-> seq(modified, mod), Errors |-> seq(failed, fail),
                Counter |-> CounterOf(counts)]

\* ------------------------------------------------------------------------
\* reporter.go: the chain of trust. A file on disk is [kind, walk]: a
\* marshaled Walk ("walk"), bytes that do not unmarshal ("garbage"), or no
\* file ("missing"). The review file is [readable, writable, review] with
\* review the map of the Reviews message (empty when the file has no entry).

\* os.ReadFile and proto.Unmarshal of a walk file.
FileExists(disk, p) == p \in DOMAIN disk /\ disk[p].kind # "missing"
Unmarshals(blob) == blob.kind = "walk"

\* hex(sha256.Sum256(b)): different bytes have different digests, and no
\* digest is the empty string <<>>.
Sha256Hex(blob) == <<"sha256", blob>>

fingerprint(blob) == [Method |-> "SHA256", Value |-> Sha256Hex(blob)]

\* A faulty variant of verifyFingerprint: the values are not compared.
verifyFingerprintNoValue(goodFp, checkFp) ==
    IF checkFp.Method # goodFp.Method THEN "fingerprint method doesn't match"
    ELSE IF goodFp.Method = "UNKNOWN" THEN "undefined fingerprint method"
    ELSE IF goodFp.Value = <<>> THEN "empty fingerprint value"
    ELSE ""

\* verifyFingerprint: the error, "" for nil.
verifyFingerprint(goodFp, checkFp) ==
    IF checkFp.Method # goodFp.Method THEN "fingerprint method doesn't match"
    ELSE IF goodFp.Method = "UNKNOWN" THEN "undefined fingerprint method"
    ELSE IF goodFp.Value = <<>> THEN "empty fingerprint value"
    ELSE IF checkFp.Value # goodFp.Value THEN "fingerprint doesn't match"
    ELSE ""

WalkFile(p, walk, fp) == [Path |-> p, Walk |-> walk, Fingerprint |-> fp]

\* ReadWalk: [wf, err, read], read the set of files it opened.
ReadWalk(disk, p) ==
    IF ~FileExists(disk, p)
    THEN [wf |-> Nil, err |-> "no such file", read |-> {}]
    ELSE IF ~Unmarshals(disk[p])
    THEN [wf |-> Nil, err |-> "cannot parse invalid wire-format data", read |-> {p}]
    ELSE [wf |-> Some(WalkFile(p, disk[p].walk[1], fingerprint(disk[p]))), err |-> "",
          read |-> {p}]

\* A faulty variant of the lookup: any host's entry answers.
lookupReviewAny(review, hostname) ==
    IF DOMAIN review # {} THEN Some(review[CHOOSE h \in DOMAIN review : TRUE]) ELSE Nil

\* rvws, ok := reviews.Review[hostname]
lookupReview(review, hostname) ==
    IF hostname \in DOMAIN review THEN Some(review[hostname]) ELSE Nil

\* ReadLastGoodWalk: [wf, err, read]. On a failed check the WalkFile that
\* was read is returned beside the error.
ReadLastGoodWalk(store, disk, hostname) ==
    IF ~store.readable
    THEN [wf |-> Nil, err |-> "cannot read review file", read |-> {}]
    ELSE LET rvws == lookupReview(store.review, hostname)
         IN IF rvws = Nil
            THEN [wf |-> Nil, err |-> "", read |-> {}]
            ELSE LET r == ReadWalk(disk, rvws[1].WalkReference)
                     verr == verifyFingerprint(rvws[1].Fingerprint, r.wf[1].Fingerprint)
                 IN IF r.err # "" THEN r
                    ELSE IF verr # "" THEN [r EXCEPT !.err = verr]
                    ELSE IF r.wf[1].Walk.Id # rvws[1].WalkID
                    THEN [r EXCEPT !.err = "walk ID doesn't match"]
                    ELSE r

\* The replacement of message boundary characters in writeTextProto, which
\* runs over the whole text, string values included.
AngleToBrace(str) ==
    [i \in 1..Len(str) |->
        IF str[i] = "<" THEN "{" ELSE IF str[i] = ">" THEN "}" ELSE str[i]]

\* The Review as the review file holds it after writeTextProto and a later
\* readTextProto. Host names, walk identifiers and digests have no angle
\* brackets; a walk file path may.
WrittenReview(r) == [r EXCEPT !.WalkReference = AngleToBrace(r.WalkReference)]

\* UpdateReviewProto: [store, outcome, err], outcome "ok" (nil), "error" or
\* "panic". Unmarshal leaves the map of a message without entries nil, and
\* the assignment into a nil map panics.
UpdateReviewProto(store, walkFile, reviewFile) ==
    LET review == [WalkID |-> walkFile.Walk.Id, WalkReference |-> walkFile.Path,
                   Fingerprint |-> walkFile.Fingerprint]
        hostname == walkFile.Walk.Hostname
        hosts == DOMAIN store.review \cup {hostname}
        reviews == [h \in hosts |-> IF h = hostname THEN review ELSE store.review[h]]
    IN IF reviewFile = ""
       THEN [store |-> store, outcome |-> "ok", err |-> ""]
       ELSE IF ~store.readable
       THEN [store |-> store, outcome |-> "error", err |-> "cannot read review file"]
       ELSE IF DOMAIN store.review = {}
       THEN [store |-> store, outcome |-> "panic", err |-> "assignment to entry in nil map"]
       ELSE IF ~store.writable
       THEN [store |-> store, outcome |-> "error", err |-> "permission denied"]
       ELSE [store |-> [store EXCEPT !.review = [h \in hosts |-> WrittenReview(reviews[h])]],
             outcome |-> "ok", err |-> ""]

\* ------------------------------------------------------------------------
\* walker.go (the Go source at the end of src/README.md): the traversal.
\*
\* A directory entry that filepath.WalkDir hands to the callback is
\* [path, isDir, regular, size, dev, content, err, infoErr]: err marks the
\* second call for a directory whose listing failed, infoErr an entry whose
\* d.Info() fails. The entries of one include root are a sequence in the
\* order WalkDir visits them.

Notification(severity, p, msg) == [Severity |-> severity, Path |-> p, Message |-> msg]

\* relDirDepth(origin, p) > max, with relDirDepth's conversion to uint32: a
\* negative difference d becomes 2^32 + d, which is above every max the
\* policies here use (2^32 itself is beyond TLC's integers).
relDirDepthExceeds(origin, p, max) ==
    LET d == Len(Split(p)) - Len(Split(origin))
    IN IF d < 0 THEN TRUE ELSE d > max

\* A faulty variant of the callback: the exclude list is not consulted.
visitNoExclude(pol, verbose, origin, baseDev, e) ==
    LET p == NormalizePath(e.path, e.isDir)
        Result(notes, emit, skip) == [notes |-> notes, emit |-> emit, skipDir |-> skip]
        info(msg) == IF verbose THEN <<Notification("INFO", p, msg)>> ELSE <<>>
    IN IF e.err
       THEN Result(<<Notification("WARNING", p, "failed to walk")>>, FALSE, FALSE)
       ELSE IF /\ pol.MaxDirectoryDepth > 0
               /\ e.isDir
               /\ relDirDepthExceeds(origin, p, pol.MaxDirectoryDepth)
       THEN Result(<<Notification("WARNING", p, "skipping: more than MaxDirectoryDepth")>>,
                   FALSE, TRUE)
       ELSE IF e.infoErr
       THEN Result(<<Notification("WARNING", p, "failed to stat")>>, FALSE, FALSE)
       ELSE IF pol.IgnoreIrregularFiles /\ ~e.regular /\ ~e.isDir
       THEN Result(info("skipping: irregular file"), FALSE, FALSE)
       ELSE IF ~pol.WalkCrossDevice /\ e.hasDev /\ baseDev # e.dev
       THEN Result(info("skipping: file is on different device"), FALSE, e.isDir)
       ELSE Result(<<>>, TRUE, FALSE)

\* The callback preformWalk gives to WalkDir, up to the send on fileCh:
\* [notes, emit, skipDir]. origin is the cleaned include path, baseDev its device.
visit(pol, verbose, origin, baseDev, e) ==
    LET p == NormalizePath(e.path, e.isDir)
        Result(notes, emit, skip) == [notes |-> notes, emit |-> emit, skipDir |-> skip]
        info(msg) == IF verbose THEN <<Notification("INFO", p, msg)>> ELSE <<>>
    IN IF e.err
       THEN Result(<<Notification("WARNING", p, "failed to walk")>>, FALSE, FALSE)
       ELSE IF isExcluded(p, pol.Exclude)
       THEN Result(info("skipping: excluded"), FALSE, e.isDir)
       ELSE IF /\ pol.MaxDirectoryDepth > 0
               /\ e.isDir
               /\ relDirDepthExceeds(origin, p, pol.MaxDirectoryDepth)
       THEN Result(<<Notification("WARNING", p, "skipping: more than MaxDirectoryDepth")>>,
                   FALSE, TRUE)
       ELSE IF e.infoErr
       THEN Result(<<Notification("WARNING", p, "failed to stat")>>, FALSE, FALSE)
       ELSE IF pol.IgnoreIrregularFiles /\ ~e.regular /\ ~e.isDir
       THEN Result(info("skipping: irregular file"), FALSE, FALSE)
       ELSE IF ~pol.WalkCrossDevice /\ e.hasDev /\ baseDev # e.dev
       THEN Result(info("skipping: file is on different device"), FALSE, e.isDir)
       ELSE Result(<<>>, TRUE, FALSE)

\* Whether the entry at j lies inside the directory at i (and is skipped with
\* it). WalkDir names an entry filepath.Join(directory, name): the path is the
\* directory's, or goes on after the directory's path and a separator. The
\* root directory's path ends with its separator already, and joined to "."
\* a name stays as it is, so that every relative path that does not go up
\* lies inside ".".
Inside(entries, i, j) ==
    LET d == entries[i].path
        p == entries[j].path
    IN \/ p = d
       \/ IF d = <<".">>
          THEN /\ p # <<>> /\ p[1] # Separator
               /\ p # <<".", ".">> /\ ~HasPrefix(p, <<".", ".", Separator>>)
          ELSE HasPrefix(p, IF d # <<>> /\ d[Len(d)] = Separator THEN d
                            ELSE Append(d, Separator))

\* The index of the next entry WalkDir visits after i; Len + 1 at the end.
RECURSIVE NextEntry(_, _, _, _)
NextEntry(entries, i, j, skipDir) ==
    IF j > Len(entries) THEN j
    ELSE IF skipDir /\ Inside(entries, i, j) THEN NextEntry(entries, i, j + 1, skipDir)
    ELSE j

\* ------------------------------------------------------------------------
\* walker.go: the workers.

\* A faulty variant of the test: a file of exactly the limit is not hashed.
HashesBelowLimit(pol, fi) ==
    /\ ~isExcluded(fi.path, pol.ExcludeHashing)
    /\ fi.info.regular
    /\ fi.info.size < pol.MaxHashFileSize

\* Whether convert hashes the file.
Hashes(pol, fi) ==
    /\ ~isExcluded(fi.path, pol.ExcludeHashing)
    /\ fi.info.regular
    /\ fi.info.size <= pol.MaxHashFileSize

\* The FileInfo convert builds from the os.FileInfo: Name(), Size(), Mode(),
\* IsDir() and the timestamp of ModTime().
InfoOf(info) ==
    [Name |-> info.name, Size |-> info.size, Mode |-> info.mode,
     Modified |-> Some(Time(info.modTime.Sec, info.modTime.Nsec)), IsDir |-> info.isDir]

\* fsstat.ToStat on an os.FileInfo whose Sys() is a *syscall.Stat_t: the
\* fields of the Stat_t, its three Timespecs as timestamps.
StatOf(info) ==
    LET stat == info.sys[1]
        timespec2Timestamp(ts) == Some(Time(ts.Sec, ts.Nsec))
    IN [Dev |-> stat.Dev, Inode |-> stat.Ino, Nlink |-> stat.Nlink, Mode |-> stat.Mode,
        Uid |-> stat.Uid, Gid |-> stat.Gid, Rdev |-> stat.Rdev, Size |-> stat.Size,
        Blksize |-> stat.Blksize, Blocks |-> stat.Blocks,
        Atime |-> timespec2Timestamp(stat.Atim), Mtime |-> timespec2Timestamp(stat.Mtim),
        Ctime |-> timespec2Timestamp(stat.Ctim)]

\* A faulty variant of convert that keeps the separator NormalizePath added.
convertNormalized(fi, fps, stat) ==
    IF fi.info = Nil
    THEN [Version |-> 1, Path |-> fi.path, Info |-> Nil, Stat |-> Nil, Fingerprint |-> <<>>]
    ELSE [Version |-> 1, Path |-> fi.path, Info |-> InfoOf(fi.info), Stat |-> stat,
          Fingerprint |-> fps]

\* The File convert returns for fi, with the fingerprints and the Stat it got.
\* Without an os.FileInfo (fi.info nil, the empty tuple here) the File has
\* its Version and its Path only; Info is nil there, and a record otherwise.
convert(fi, fps, stat) ==
    IF fi.info = Nil
    THEN [Version |-> 1, Path |-> Clean(fi.path), Info |-> Nil, Stat |-> Nil,
          Fingerprint |-> <<>>]
    ELSE [Version |-> 1, Path |-> Clean(fi.path), Info |-> InfoOf(fi.info), Stat |-> stat,
          Fingerprint |-> fps]

workerErr(p, err) == [path |-> p, err |-> err]

\* metrics.Counter.Add: the metric is created by its first Add.
CounterAdd(counter, n, name) ==
    [m \in DOMAIN counter \cup {name} |->
        IF m = name THEN (IF name \in DOMAIN counter THEN counter[name] ELSE 0) + n
        ELSE counter[m]]

\* A faulty variant of the metrics: a File without a Stat is not counted
\* as a stat error.
CountFileNoStatErr(counter, f) ==
    LET c1 == CounterAdd(counter, 1, IF f.Info.IsDir THEN "dir-count" ELSE "file-count")
        c2 == CounterAdd(c1, f.Info.Size, "file-size-sum")
    IN IF Len(f.Fingerprint) > 0 THEN CounterAdd(c2, 1, "file-hash-count") ELSE c2

\* The metrics process collects for one File.
CountFile(counter, f) ==
    LET c1 == CounterAdd(counter, 1, IF f.Info.IsDir THEN "dir-count" ELSE "file-count")
        c2 == CounterAdd(c1, f.Info.Size, "file-size-sum")
        c3 == IF f.Stat = Nil THEN CounterAdd(c2, 1, "file-stat-errors") ELSE c2
    IN IF Len(f.Fingerprint) > 0 THEN CounterAdd(c3, 1, "file-hash-count") ELSE c3

\* ------------------------------------------------------------------------
\* The state of the four subsystems. Each specification below runs one of
\* them and leaves the variables of the others at rest.

VARIABLES
    \* the path policy: the arguments and the result of one isExcluded call
    path, excluded, pathOp, exclRes,
    \* the directory flag of NormalizePath and its successive results
    normIsDir, normalized,
    \* the reporter's comparison: the two inventories (nil or a Walk), the
    \* report config's exclude list, and what Compare returned
    before, after, configExclude, cmpPc, cmpRes,
    \* the chain of trust: the review file, the walk files on disk, and the
    \* last operation with what it returned
    reviewStore, disk, lastOp,
    \* the WalkFile the reporter has loaded and not yet written a review for (or nil)
    loadedWalk,
    \* the walker: the policy, Verbose and the file system Run works on
    pol, verbose, roots,
    \* Run and preformWalk: where Run is, the include and the entry being
    \* visited, the error preformWalk returned, the error Run returned
    mainPc, rootIdx, entryIdx, perr, runErr,
    \* w.walk (nil before Run creates it), w.Counter, walkMu (0 when free)
    walk, counter, walkMu,
    \* fileCh with its closed flag, errCh's closed flag, workerErrs
    fileCh, fileChClosed, errChClosed, workerErrs,
    \* each worker's position and locals; the collector's position and the
    \* error it received; the walks handed to WalkCallback, in order
    wk, cpc, cerr, callbacks,
    \* the reporter command: where main is, its flags, the walks it loaded
    \* ([before, after], each nil or a WalkFile), the report Compare gave
    \* it, what it printed, and the operator's answer (nil before the prompt)
    rptPc, rptFlags, rptWalks, rptReport, rptOut, rptAnswer

pathVars == <<path, excluded, pathOp, exclRes, normIsDir, normalized>>
cmpVars == <<before, after, configExclude, cmpPc, cmpRes>>
trustVars == <<reviewStore, disk, lastOp, loadedWalk>>
runVars ==
    <<pol, verbose, roots, mainPc, rootIdx, entryIdx, perr, runErr, walk, counter, walkMu,
      fileCh, fileChClosed, errChClosed, workerErrs, wk, cpc, cerr, callbacks>>
rptVars == <<rptPc, rptFlags, rptWalks, rptReport, rptOut, rptAnswer>>
vars == <<pathVars, cmpVars, trustVars, runVars, rptVars>>

PathAtRest ==
    /\ path = <<>>
    /\ excluded = <<>>
    /\ pathOp = "off"
    /\ exclRes = FALSE
    /\ normIsDir = FALSE
    /\ normalized = <<>>

CmpAtRest ==
    /\ before = Nil
    /\ after = Nil
    /\ configExclude = <<>>
    /\ cmpPc = "off"
    /\ cmpRes = NoReport("none", "")

TrustAtRest ==
    /\ reviewStore = <<>>
    /\ disk = <<>>
    /\ lastOp = <<>>
    /\ loadedWalk = Nil

RunAtRest ==
    /\ pol = <<>> /\ verbose = FALSE /\ roots = <<>>
    /\ mainPc = "off" /\ rootIdx = 0 /\ entryIdx = 0 /\ perr = "" /\ runErr = ""
    /\ walk = Nil /\ counter = <<>> /\ walkMu = 0
    /\ fileCh = <<>> /\ fileChClosed = FALSE /\ errChClosed = FALSE /\ workerErrs = <<>>
    /\ wk = <<>> /\ cpc = "off" /\ cerr = Nil /\ callbacks = <<>>

RptAtRest ==
    /\ rptPc = "off" /\ rptFlags = <<>> /\ rptWalks = <<>>
    /\ rptReport = NoReport("none", "") /\ rptOut = <<>> /\ rptAnswer = Nil

\* ------------------------------------------------------------------------
\* The path-policy specification: isExcluded applied to every path and
\* every list of prefixes within the bounds.

Paths == SeqsUpTo(PathChars, MaxPathLen)
Prefixes == SeqsUpTo(PathChars, MaxPrefixLen) \ {<<>>}
ExcludeLists == SeqsUpTo(Prefixes, MaxExcl)

InitPath ==
    /\ path \in Paths
    /\ excluded \in ExcludeLists
    /\ pathOp = "idle"
    /\ exclRes = FALSE
    /\ normIsDir = FALSE
    /\ normalized = <<>>
    /\ CmpAtRest
    /\ TrustAtRest
    /\ RunAtRest
    /\ RptAtRest

CallIsExcluded ==
    /\ pathOp = "idle"
    /\ pathOp' = "isExcluded"
    /\ exclRes' = isExcluded(path, excluded)
    /\ UNCHANGED <<path, excluded, normIsDir, normalized>>

NextPath == CallIsExcluded /\ UNCHANGED <<cmpVars, trustVars, runVars, rptVars>>

SpecPath == InitPath /\ [][NextPath]_vars

\* ------------------------------------------------------------------------
\* The comparison specification: Compare applied to every pair of
\* inventories within the bounds.

\* The most File records in one inventory.
MaxFiles == 2

PA == <<"/", "a">>
PB == <<"/", "b">>
PC == <<"/", "b", "/", "c">>

SHA256(v) == [Method |-> "SHA256", Value |-> v]

BaseStat ==
    [Dev |-> 1, Inode |-> 1, Nlink |-> 1, Mode |-> 1, Uid |-> 0, Gid |-> 0, Rdev |-> 0,
     Size |-> 1, Blksize |-> 1, Blocks |-> 1, Atime |-> Some(Time(1, 0)),
     Mtime |-> Some(Time(1, 0)), Ctime |-> Some(Time(1, 0))]

\* A File record as Walker.convert builds it: the path cleaned, Info always set.
MkFile(p, isDir, version, size, fps) ==
    [Version |-> version, Path |-> p,
     Info |-> [Name |-> BaseNameOf(p), Size |-> size, Mode |-> 1,
               Modified |-> Some(Time(1, 0)), IsDir |-> isDir],
     Stat |-> Some(BaseStat), Fingerprint |-> fps]

FilesA ==
    {MkFile(PA, FALSE, 1, 1, <<SHA256("H1")>>), MkFile(PA, FALSE, 1, 1, <<SHA256("H2")>>),
     MkFile(PA, FALSE, 1, 1, <<>>), MkFile(PA, FALSE, 1, 2, <<SHA256("H1")>>),
     MkFile(PA, FALSE, 2, 1, <<SHA256("H1")>>)}
FilesB == {MkFile(PB, TRUE, 1, 0, <<>>)}
FilesC == {MkFile(PC, FALSE, 1, 1, <<SHA256("H1")>>), MkFile(PC, FALSE, 1, 1, <<SHA256("H2")>>)}
AllFiles == FilesA \cup FilesB \cup FilesC

\* The inventories of one walk: no two File records share a path.
Inventories ==
    {fs \in SeqsUpTo(AllFiles, MaxFiles) :
        \A i, j \in 1..Len(fs) : i # j => fs[i].Path # fs[j].Path}

MkWalk(id, version, hostname, start, stop, files) ==
    [Id |-> id, Version |-> version, Hostname |-> hostname, StartWalk |-> Some(start),
     StopWalk |-> Some(stop), File |-> files]

\* The after walk w2 started at 2s; the before walks deviate from the walk
\* that passes sanityCheck in at most one of id, version, hostname, stop time.
AfterWalks == {MkWalk("w2", 1, "h1", Time(2, 0), Time(4, 0), fs) : fs \in Inventories}

BeforeHeaders ==
    {h \in [id : {"w1", "w2"}, version : {1, 2}, hostname : {"h1", "h2"},
            stop : {Time(1, 0), Time(2, 0), Time(2, 1), Time(3, 0)}] :
        Cardinality({f \in {"id", "version", "hostname", "stop"} :
            \/ f = "id" /\ h.id # "w1"
            \/ f = "version" /\ h.version # 1
            \/ f = "hostname" /\ h.hostname # "h1"
            \/ f = "stop" /\ h.stop # Time(1, 0)}) <= 1}

BeforeWalks ==
    {MkWalk(h.id, h.version, h.hostname, Time(0, 0), h.stop, fs) :
        h \in BeforeHeaders, fs \in Inventories}

ReportExcludes == {<<>>, <<PA>>, <<<<"/", "b", "/">>>>}

InitCompare ==
    /\ before \in {Nil} \cup {Some(w) : w \in BeforeWalks \cup AfterWalks}
    /\ after \in {Nil} \cup {Some(w) : w \in AfterWalks}
    /\ configExclude \in ReportExcludes
    /\ cmpPc = "idle"
    /\ cmpRes = NoReport("none", "")
    /\ PathAtRest
    /\ TrustAtRest
    /\ RunAtRest
    /\ RptAtRest

CallCompare ==
    /\ cmpPc = "idle"
    /\ cmpPc' = "done"
    /\ cmpRes' = Compare(before, after, configExclude)
    /\ UNCHANGED <<before, after, configExclude>>

NextCompare == CallCompare /\ UNCHANGED <<pathVars, trustVars, runVars, rptVars>>

SpecCompare == InitCompare /\ [][NextCompare]_vars

\* ------------------------------------------------------------------------
\* C1: isExcluded(path, prefixes) is true exactly when path equals some
\* prefix, or some prefix ends in a separator and the parent directory of
\* path, with a separator appended, starts with that prefix. So the bare
\* prefix /a excludes /a but neither /a/ nor /aa, the prefix /a/ excludes
\* /a/a, and the empty list excludes nothing.
EndsInSeparator(e) == e[Len(e)] = Separator

ClaimExcluded(p, excl) ==
    \E i \in 1..Len(excl) :
        \/ p = excl[i]
        \/ /\ EndsInSeparator(excl[i])
           /\ HasPrefix(Dir(p) \o <<Separator>>, excl[i])

C1_IsExcludedContract ==
    pathOp = "isExcluded" =>
        /\ exclRes = ClaimExcluded(path, excluded)
        /\ excluded = << <<"/", "a">> >> =>
              /\ path = <<"/", "a">> => exclRes
              /\ path = <<"/", "a", "/">> => ~exclRes
              /\ path = <<"/", "a", "a">> => ~exclRes
        /\ (excluded = << <<"/", "a", "/">> >> /\ path = <<"/", "a", "/", "a">>) => exclRes
        /\ excluded = <<>> => ~exclRes

C1_Witness ==
    /\ pathOp = "isExcluded"
    /\ excluded = << <<"/", "a", "/">>, <<"/", "a">> >>
    /\ path = <<"/", "a", "/", "a">>
    /\ exclRes

\* ------------------------------------------------------------------------
\* The chain-of-trust specification: ReadLastGoodWalk and UpdateReviewProto
\* on a review file and two walk files, which anyone with access to the disk
\* may replace.

F1 == <<"f", "1">>
F2 == <<"f", "2">>
WalkPaths == {F1, F2}
Hostnames == {"h1", "h2"}
ReviewFilePath == "reviews"

TrustWalks ==
    {MkWalk(id, 1, h, Time(0, 0), Time(1, 0), fs) :
        id \in {"w1", "w2"}, h \in Hostnames,
        fs \in {<<>>, <<MkFile(PA, FALSE, 1, 1, <<SHA256("H1")>>)>>}}

WalkBlob(w) == [kind |-> "walk", walk |-> Some(w)]
DiskBlobs ==
    {WalkBlob(w) : w \in TrustWalks}
        \cup {[kind |-> "garbage", walk |-> Nil], [kind |-> "missing", walk |-> Nil]}

Walk1 == MkWalk("w1", 1, "h1", Time(0, 0), Time(1, 0), <<>>)
Walk2 == MkWalk("w2", 1, "h2", Time(0, 0), Time(1, 0), <<>>)

Review(id, ref, fp) == [WalkID |-> id, WalkReference |-> ref, Fingerprint |-> fp]
Store(readable, writable, review) ==
    [readable |-> readable, writable |-> writable, review |-> review]
OneReview(h, r) == [x \in {h} |-> r]

\* The review files the runs start from: unreadable, without entries,
\* read-only, and with an entry that pins F1 rightly, with the method
\* UNKNOWN, with an empty value, with another walk's identifier, or that
\* belongs to the other host.
InitialStores ==
    {Store(FALSE, TRUE, <<>>),
     Store(TRUE, TRUE, <<>>),
     Store(TRUE, FALSE, OneReview("h1", Review("w1", F1, fingerprint(WalkBlob(Walk1))))),
     Store(TRUE, TRUE, OneReview("h1", Review("w1", F1, fingerprint(WalkBlob(Walk1))))),
     Store(TRUE, TRUE, OneReview("h1", Review("w1", F1,
         [Method |-> "UNKNOWN", Value |-> Sha256Hex(WalkBlob(Walk1))]))),
     Store(TRUE, TRUE, OneReview("h1", Review("w1", F1, [Method |-> "SHA256", Value |-> <<>>]))),
     Store(TRUE, TRUE, OneReview("h1", Review("w2", F1, fingerprint(WalkBlob(Walk1))))),
     Store(TRUE, TRUE, OneReview("h2", Review("w2", F2, fingerprint(WalkBlob(Walk2)))))}

Op(op, hostname, reviewFile, storeBefore, arg, wf, outcome, err, read) ==
    [op |-> op, hostname |-> hostname, reviewFile |-> reviewFile,
     storeBefore |-> storeBefore, arg |-> arg, wf |-> wf, outcome |-> outcome,
     err |-> err, read |-> read]

InitTrust ==
    /\ reviewStore \in InitialStores
    /\ disk = [p \in WalkPaths |-> IF p = F1 THEN WalkBlob(Walk1) ELSE WalkBlob(Walk2)]
    /\ lastOp = Op("none", "", "", reviewStore, Nil, Nil, "", "", {})
    /\ loadedWalk = Nil
    /\ PathAtRest
    /\ CmpAtRest
    /\ RunAtRest
    /\ RptAtRest

\* The file at p is replaced by other bytes (or removed).
ReplaceWalkFile ==
    \E p \in WalkPaths, b \in DiskBlobs :
        /\ b # disk[p]
        /\ disk' = [disk EXCEPT ![p] = b]
        /\ lastOp' = Op("ReplaceWalkFile", "", "", reviewStore, Nil, Nil, "", "", {})
        /\ UNCHANGED <<reviewStore, loadedWalk>>

\* The reporter is one sequential process: it reads the last good walk
\* before it loads the walk to report on, never between that load and the
\* update of the review file.
CallReadLastGoodWalk ==
    \E h \in Hostnames :
        LET r == ReadLastGoodWalk(reviewStore, disk, h)
        IN /\ loadedWalk = Nil
           /\ lastOp' = Op("ReadLastGoodWalk", h, ReviewFilePath, reviewStore, Nil, r.wf,
                           IF r.err = "" THEN "ok" ELSE "error", r.err, r.read)
           /\ UNCHANGED <<reviewStore, disk, loadedWalk>>

\* The reporter loads the walk file it is to report on with ReadWalk; on an
\* error it exits. The operator is asked before the review is written, and
\* the file on the disk may change in that time.
CallReadWalk ==
    \E p \in WalkPaths :
        LET loaded == ReadWalk(disk, p)
        IN /\ loadedWalk = Nil
           /\ loaded.err = ""
           /\ loadedWalk' = loaded.wf
           /\ lastOp' = Op("ReadWalk", loaded.wf[1].Walk.Hostname, "", reviewStore, Nil,
                           loaded.wf, "ok", "", loaded.read)
           /\ UNCHANGED <<reviewStore, disk>>

\* UpdateReviewProto with the WalkFile that ReadWalk loaded earlier, as the
\* reporter calls it, with or without a review file path; the reporter exits
\* after it.
CallUpdateReviewProto ==
    \E reviewFile \in {"", ReviewFilePath} :
        LET u == UpdateReviewProto(reviewStore, loadedWalk[1], reviewFile)
        IN /\ loadedWalk # Nil
           /\ reviewStore' = u.store
           /\ lastOp' = Op("UpdateReviewProto", loadedWalk[1].Walk.Hostname, reviewFile,
                           reviewStore, loadedWalk, Nil, u.outcome, u.err, {})
           /\ loadedWalk' = Nil
           /\ UNCHANGED disk

\* The operator declines the update, and the reporter exits without a call
\* of UpdateReviewProto.
ReporterExit ==
    /\ loadedWalk # Nil
    /\ loadedWalk' = Nil
    /\ lastOp' = Op("ReporterExit", "", "", reviewStore, Nil, Nil, "", "", {})
    /\ UNCHANGED <<reviewStore, disk>>

NextTrust ==
    /\ \/ ReplaceWalkFile
       \/ CallReadLastGoodWalk
       \/ CallReadWalk
       \/ CallUpdateReviewProto
       \/ ReporterExit
    /\ UNCHANGED <<pathVars, cmpVars, runVars, rptVars>>

SpecTrust == InitTrust /\ [][NextTrust]_vars

\* ------------------------------------------------------------------------
\* What a report lists, read off the two inventories.

FilesOf(w) == IF w = Nil THEN <<>> ELSE w[1].File
NormalizedPaths(w) ==
    {NormalizePath(FilesOf(w)[i].Path, FilesOf(w)[i].Info.IsDir) : i \in 1..Len(FilesOf(w))}
FileAt(w, k) ==
    LET fs == FilesOf(w)
        i == CHOOSE j \in 1..Len(fs) : NormalizePath(fs[j].Path, fs[j].Info.IsDir) = k
    IN [fs[i] EXCEPT !.Path = k]

EntryPath(e) == IF e.Before # Nil THEN e.Before[1].Path ELSE e.After[1].Path
ListPaths(list) == {EntryPath(list[i]) : i \in 1..Len(list)}
Reported == cmpPc = "done" /\ cmpRes.kind = "report"

\* C2: in a report, Deleted holds exactly the paths of before that are not
\* excluded and not in after, Added exactly the paths of after that are not
\* excluded and not in before, Modified exactly the non-excluded paths of both
\* whose field-level diff is non-empty. With before absent every non-excluded
\* after file is Added and nothing is Deleted or Modified. No path is in two
\* lists, no list names a path twice, and an excluded path is in none. Before
\* {/a (H1), /b/} against after {/a (H2), /b/c} gives Modified /a with the
\* fingerprint line H1 => H2, Deleted /b/ and Added /b/c.
C2_Classification ==
    Reported =>
        LET pb == NormalizedPaths(before)
            pa == NormalizedPaths(after)
            ex(k) == ClaimExcluded(k, configExclude)
            D == ListPaths(cmpRes.Deleted)
            A == ListPaths(cmpRes.Added)
            M == ListPaths(cmpRes.Modified)
            E == ListPaths(cmpRes.Errors)
        IN /\ D = {k \in pb : ~ex(k) /\ k \notin pa}
           /\ A = {k \in pa : ~ex(k) /\ k \notin pb}
           /\ M = {k \in pb \cap pa :
                     ~ex(k) /\ diffFile(FileAt(before, k), FileAt(after, k)).diff # <<>>}
           /\ before = Nil => (A = {k \in pa : ~ex(k)} /\ D = {} /\ M = {})
           /\ D \cap A = {} /\ D \cap M = {} /\ D \cap E = {}
           /\ A \cap M = {} /\ A \cap E = {} /\ M \cap E = {}
           /\ Cardinality(D) = Len(cmpRes.Deleted) /\ Cardinality(A) = Len(cmpRes.Added)
           /\ Cardinality(M) = Len(cmpRes.Modified) /\ Cardinality(E) = Len(cmpRes.Errors)
           /\ \A k \in pb \cup pa : ex(k) => k \notin D \cup A \cup M \cup E
           /\ ( /\ before # Nil
                /\ before[1].File = <<MkFile(PA, FALSE, 1, 1, <<SHA256("H1")>>),
                                      MkFile(PB, TRUE, 1, 0, <<>>)>>
                /\ after[1].File = <<MkFile(PA, FALSE, 1, 1, <<SHA256("H2")>>),
                                     MkFile(PC, FALSE, 1, 1, <<SHA256("H1")>>)>>
                /\ configExclude = <<>> )
              => /\ M = {PA} /\ D = {<<"/", "b", "/">>} /\ A = {PC}
                 /\ cmpRes.Modified[1].Diff = <<Line("fingerprint", "H1", "H2")>>

C2_Witness ==
    /\ Reported
    /\ configExclude = <<<<"/", "b", "/">>>>
    /\ ListPaths(cmpRes.Modified) = {PA}
    /\ before # Nil
    /\ PC \in NormalizedPaths(before) \cup NormalizedPaths(after)

C2_WitnessScenario ==
    /\ Reported
    /\ ListPaths(cmpRes.Modified) = {PA}
    /\ ListPaths(cmpRes.Deleted) = {<<"/", "b", "/">>}
    /\ ListPaths(cmpRes.Added) = {PC}

\* C3: Compare of two inventories with the same identifier, Compare(w, w)
\* among them, fails with the identifier error and returns no report.
C3_SameIdFails ==
    (cmpPc = "done" /\ before # Nil /\ after # Nil /\ before[1].Id = after[1].Id) =>
        /\ cmpRes.kind = "error"
        /\ cmpRes.err = "ID of both Walks is the same"
        /\ cmpRes = NoReport("error", cmpRes.err)

C3_Witness ==
    /\ cmpPc = "done"
    /\ before # Nil
    /\ before = after
    /\ Len(before[1].File) > 0
    /\ cmpRes.kind = "error"

\* C4: Compare returns an error and no report when after is absent, when the
\* versions differ, when the hostnames differ, or when before stopped strictly
\* later than after started; when before stopped at the instant after started
\* and the other checks pass, it returns a report.
C4_Preconditions ==
    cmpPc = "done" =>
        LET fails == cmpRes = NoReport("error", cmpRes.err) /\ cmpRes.err # ""
        IN /\ after = Nil => fails
           /\ (before # Nil /\ after # Nil) =>
                 LET b == before[1]
                     a == after[1]
                 IN /\ b.Version # a.Version => fails
                    /\ b.Hostname # a.Hostname => fails
                    /\ TimeAfter(AsTime(b.StopWalk), AsTime(a.StartWalk)) => fails
                    /\ ( /\ b.Id # a.Id /\ b.Version = a.Version /\ b.Hostname = a.Hostname
                         /\ TimeEqual(AsTime(b.StopWalk), AsTime(a.StartWalk)) )
                       => cmpRes.kind = "report"

C4_Witness ==
    /\ cmpPc = "done"
    /\ before # Nil /\ after # Nil
    /\ TimeEqual(AsTime(before[1].StopWalk), AsTime(after[1].StartWalk))
    /\ cmpRes.kind = "report"
    /\ Len(cmpRes.Modified) > 0

\* ------------------------------------------------------------------------
\* The review entry and the walk file a ReadLastGoodWalk call was about.

IsRead == lastOp.op = "ReadLastGoodWalk"
HasEntry == reviewStore.readable /\ lastOp.hostname \in DOMAIN reviewStore.review
Entry == reviewStore.review[lastOp.hostname]
Stored == disk[Entry.WalkReference]
StoredDecodes == FileExists(disk, Entry.WalkReference) /\ Unmarshals(Stored)

\* C5: ReadLastGoodWalk returns an inventory without error only if the pinned
\* fingerprint has method SHA256 and a non-empty value equal to the SHA-256 of
\* the stored bytes, and the loaded inventory's identifier is the pinned one.
\* Bytes that match the pin under another identifier are rejected, and so is
\* an entry whose pinned value is empty or whose method is UNKNOWN.
C5_LastGoodVerified ==
    IsRead =>
        /\ (lastOp.err = "" /\ lastOp.wf # Nil) =>
              /\ HasEntry
              /\ Entry.Fingerprint.Method = "SHA256"
              /\ Entry.Fingerprint.Value # <<>>
              /\ StoredDecodes
              /\ Entry.Fingerprint.Value = Sha256Hex(Stored)
              /\ Stored.walk[1].Id = Entry.WalkID
              /\ lastOp.wf[1].Walk = Stored.walk[1]
        /\ ( /\ HasEntry /\ StoredDecodes
             /\ Entry.Fingerprint = fingerprint(Stored)
             /\ Stored.walk[1].Id # Entry.WalkID ) => lastOp.err # ""
        /\ ( /\ HasEntry
             /\ Entry.Fingerprint.Value = <<>> \/ Entry.Fingerprint.Method = "UNKNOWN" )
           => lastOp.err # ""

C5_Witness ==
    /\ IsRead
    /\ lastOp.err = ""
    /\ lastOp.wf # Nil
    /\ Entry.WalkReference = F2
    /\ lastOp.hostname = "h1"

\* C6: once the blob a review entry refers to holds other bytes that still
\* decode to an inventory with the pinned identifier, ReadLastGoodWalk fails
\* with the fingerprint-mismatch error and returns no inventory.
C6_TamperedNotReturned ==
    ( /\ IsRead /\ HasEntry /\ StoredDecodes
      /\ Entry.Fingerprint.Method = "SHA256"
      /\ Entry.Fingerprint.Value # <<>>
      /\ Stored.walk[1].Id = Entry.WalkID
      /\ Sha256Hex(Stored) # Entry.Fingerprint.Value )
    => /\ lastOp.err = "fingerprint doesn't match"
       /\ lastOp.wf = Nil

\* C7: with a readable review file that has no entry for the host, whatever
\* it has for other hosts, ReadLastGoodWalk returns no inventory and no error
\* and opens no walk file; with an unreadable review file it returns an error.
C7_NoEntryIsAbsent ==
    IsRead =>
        /\ (reviewStore.readable /\ lastOp.hostname \notin DOMAIN reviewStore.review) =>
              /\ lastOp.wf = Nil
              /\ lastOp.err = ""
              /\ lastOp.read = {}
        /\ ~reviewStore.readable => (lastOp.err # "" /\ lastOp.wf = Nil)

C7_Witness ==
    /\ IsRead
    /\ reviewStore.readable
    /\ lastOp.hostname \notin DOMAIN reviewStore.review
    /\ DOMAIN reviewStore.review # {}
    /\ lastOp.wf = Nil

\* C8: UpdateReviewProto with a review file path succeeds on a readable,
\* writable review file, whether it had an entry for the host, entries for
\* other hosts only, or no entry at all, and then the file maps the host to
\* (walk id, walk file path, walk file fingerprint) and every other host as
\* before; on an unreadable review file it returns an error and writes nothing.
C8_UpdateWritesEntry ==
    (lastOp.op = "UpdateReviewProto" /\ lastOp.reviewFile # "") =>
        LET sb == lastOp.storeBefore
            wf == lastOp.arg[1]
            h == wf.Walk.Hostname
        IN /\ (sb.readable /\ sb.writable) => lastOp.outcome = "ok"
           /\ lastOp.outcome = "ok" =>
                 /\ h \in DOMAIN reviewStore.review
                 /\ reviewStore.review[h] = Review(wf.Walk.Id, wf.Path, wf.Fingerprint)
                 /\ DOMAIN reviewStore.review = DOMAIN sb.review \cup {h}
                 /\ \A o \in DOMAIN sb.review \ {h} : reviewStore.review[o] = sb.review[o]
           /\ ~sb.readable => (lastOp.outcome = "error" /\ reviewStore = sb)

\* ------------------------------------------------------------------------
\* SpecRun: one Walker.Run, with its traversal on the calling goroutine, its
\* workers and its error collector as interleaved steps.

Parallelism == 2
FileChCap == 1

RootA == <<"/", "a">>
RootX == <<"/", "x">>

\* A regular file or a directory as WalkDir reports it, with what its
\* os.FileInfo answers: name, size, mode, modTime and sys, the *syscall.Stat_t
\* of Sys() or nil. unreadable makes sha256sum fail; hasSys is whether Sys()
\* is a *syscall.Stat_t, which both fsstat.Dev (hasDev, dev) and fsstat.ToStat
\* depend on.
DirEntry(p, isDir, unreadable, hasSys) ==
    LET size == IF isDir THEN 0 ELSE 1
        mode == IF isDir THEN 2 ELSE 1
        ts == [Sec |-> 1, Nsec |-> 0]
    IN [path |-> p, isDir |-> isDir, regular |-> ~isDir, name |-> BaseNameOf(p),
        size |-> size, mode |-> mode, modTime |-> ts,
        dev |-> 1, hasDev |-> hasSys, hasSys |-> hasSys,
        sys |-> IF hasSys
                THEN Some([Dev |-> 1, Ino |-> 1, Nlink |-> 1, Mode |-> mode, Uid |-> 0,
                           Gid |-> 0, Rdev |-> 0, Size |-> size, Blksize |-> 1, Blocks |-> 1,
                           Atim |-> ts, Mtim |-> ts, Ctim |-> ts])
                ELSE Nil,
        content |-> p, unreadable |-> unreadable, err |-> FALSE, infoErr |-> FALSE]

\* /a holds the file /a/a of one byte and the directory /a/b with the file
\* /a/b/c of two bytes.
TreeA(unreadable, hasSys) ==
    <<DirEntry(RootA, TRUE, FALSE, TRUE),
      DirEntry(RootA \o <<"/", "a">>, FALSE, unreadable, TRUE),
      DirEntry(RootA \o <<"/", "b">>, TRUE, FALSE, TRUE),
      LET c == DirEntry(RootA \o <<"/", "b", "/", "c">>, FALSE, FALSE, hasSys)
      IN [c EXCEPT !.size = 2,
                   !.sys = IF hasSys THEN Some([c.sys[1] EXCEPT !.Size = 2]) ELSE Nil]>>

\* What os.Stat and fsstat.DevNumber give for an include root, and the
\* entries WalkDir finds under it. /x does not exist.
FileSystems ==
    {[r \in {RootA, RootX} |->
        IF r = RootA THEN [ok |-> TRUE, dev |-> 1, entries |-> TreeA(u, s)]
        ELSE [ok |-> FALSE, dev |-> 0, entries |-> <<>>]] : u \in BOOLEAN, s \in BOOLEAN}

RunIncludes == {<<RootA>>, <<RootX>>, <<RootX, RootA>>, <<RootA, RootX>>}
RunExcludes == {<<>>, <<RootA \o <<"/", "b", "/">>>>}

Policy(inc, exc, excHash, maxHash, maxDepth) ==
    [Include |-> inc, Exclude |-> exc, ExcludeHashing |-> excHash, MaxHashFileSize |-> maxHash,
     MaxDirectoryDepth |-> maxDepth, IgnoreIrregularFiles |-> FALSE, WalkCrossDevice |-> FALSE]

\* The policies: every include list with every exclude list, and for the
\* include /a one further setting at a time: an exclude entry that names a
\* file or a directory without its separator, an exclude-from-hashing list,
\* another hash size limit, a depth limit.
RunPolicies ==
    {Policy(inc, exc, <<>>, 1, 0) : inc \in RunIncludes, exc \in RunExcludes}
    \cup {Policy(<<RootA>>, <<exc>>, <<>>, 1, 0) :
            exc \in {RootA \o <<"/", "a">>, RootA \o <<"/", "b">>}}
    \cup {Policy(<<RootA>>, <<>>, <<excHash>>, 1, 0) :
            excHash \in {RootA \o <<"/", "a">>, RootA \o <<"/", "b", "/">>}}
    \cup {Policy(<<RootA>>, <<>>, <<>>, maxHash, 0) : maxHash \in {0, 2}}
    \cup {Policy(<<RootA>>, <<>>, <<>>, 1, maxDepth) : maxDepth \in {1, 2}}

\* The README's example: an include of / and an exclude of /home, on a file
\* system that holds /home/u and /homeofme/important.file. The runs also
\* take it with an exclude of / itself, which skips the whole root, and the
\* include . with the exclude ./ on a directory that holds a/x and b.
RootSlash == <<Separator>>
Home == <<"/", "h", "o", "m", "e">>
HomeUser == <<"/", "h", "o", "m", "e", "/", "u">>
HomeOfMe == <<"/", "h", "o", "m", "e", "o", "f", "m", "e">>
HomeOfMeFile ==
    <<"/", "h", "o", "m", "e", "o", "f", "m", "e", "/", "i", "m", "p", "o", "r", "t", "a", "n", "t", ".", "f", "i", "l", "e">>

HomeTree ==
    <<DirEntry(RootSlash, TRUE, FALSE, TRUE),
      DirEntry(Home, TRUE, FALSE, TRUE),
      DirEntry(HomeUser, FALSE, FALSE, TRUE),
      DirEntry(HomeOfMe, TRUE, FALSE, TRUE),
      DirEntry(HomeOfMeFile, FALSE, FALSE, TRUE)>>

HomeFileSystem == [r \in {RootSlash} |-> [ok |-> TRUE, dev |-> 1, entries |-> HomeTree]]

HomePolicy == Policy(<<RootSlash>>, <<Home>>, <<>>, 1, 0)

Workers == 1..Parallelism

IdleWorker == [pc |-> "idle", fi |-> Nil, fps |-> <<>>, f |-> Nil, pending |-> Nil]

InitRun ==
    /\ \/ pol \in RunPolicies /\ roots \in FileSystems
       \/ /\ pol \in {HomePolicy, [HomePolicy EXCEPT !.Exclude = <<RootSlash>>]}
          /\ roots = HomeFileSystem
       \/ /\ pol = Policy(<<<<".">>>>, <<<<".", Separator>>>>, <<>>, 1, 0)
          /\ roots = [r \in {<<".">>} |->
                        [ok |-> TRUE, dev |-> 1,
                         entries |-> <<DirEntry(<<".">>, TRUE, FALSE, TRUE),
                                       DirEntry(<<"a">>, TRUE, FALSE, TRUE),
                                       DirEntry(<<"a", Separator, "x">>, FALSE, FALSE, TRUE),
                                       DirEntry(<<"b">>, FALSE, FALSE, TRUE)>>]]
    /\ verbose \in BOOLEAN
    /\ mainPc = "start" /\ rootIdx = 0 /\ entryIdx = 0 /\ perr = "" /\ runErr = ""
    /\ walk = Nil /\ counter = <<>> /\ walkMu = 0
    /\ fileCh = <<>> /\ fileChClosed = FALSE /\ errChClosed = FALSE /\ workerErrs = <<>>
    /\ wk = [w \in Workers |-> IdleWorker]
    /\ cpc = "idle" /\ cerr = Nil /\ callbacks = <<>>
    /\ PathAtRest
    /\ CmpAtRest
    /\ TrustAtRest
    /\ RptAtRest

\* The process is running: no goroutine has panicked.
Alive == mainPc # "crashed"

Origin == Clean(pol.Include[rootIdx])

\* Run, up to the call of preformWalk: os.Hostname fails and Run returns its
\* error, or the Walk is created and the goroutines are started.
RunStart ==
    /\ mainPc = "start"
    /\ \E hostnameFails \in BOOLEAN :
          IF hostnameFails
          THEN /\ mainPc' = "returned"
               /\ runErr' = "hostname"
               /\ UNCHANGED <<walk, wk, cpc, rootIdx>>
          ELSE /\ walk' = Some([Id |-> "w1", Version |-> 1, Hostname |-> "h1",
                                StartWalk |-> Some(Time(1, 0)), StopWalk |-> Nil,
                                File |-> <<>>, Notification |-> <<>>])
               /\ wk' = [w \in Workers |-> [IdleWorker EXCEPT !.pc = "recv"]]
               /\ cpc' = "recv"
               /\ mainPc' = "walk"
               /\ rootIdx' = 1
               /\ UNCHANGED runErr
    /\ UNCHANGED <<pol, verbose, roots, entryIdx, perr, counter, walkMu, fileCh,
                   fileChClosed, errChClosed, workerErrs, cerr, callbacks>>

\* preformWalk: os.Stat and fsstat.DevNumber on the next include. On failure
\* preformWalk returns the error; Run does not look at it and goes on.
PreformStatRoot ==
    /\ mainPc = "walk" /\ entryIdx = 0 /\ rootIdx <= Len(pol.Include)
    /\ IF roots[Origin].ok
       THEN /\ entryIdx' = 1
            /\ UNCHANGED <<mainPc, perr>>
       ELSE /\ perr' = "unable to get file info for base path"
            /\ mainPc' = "closeFileCh"
            /\ UNCHANGED entryIdx
    /\ UNCHANGED <<pol, verbose, roots, rootIdx, runErr, walk, counter, walkMu, fileCh,
                   fileChClosed, errChClosed, workerErrs, wk, cpc, cerr, callbacks>>

\* preformWalk: the WalkDir callback on one entry; the send blocks while
\* fileCh is full.
PreformVisit ==
    /\ mainPc = "walk" /\ entryIdx >= 1 /\ entryIdx <= Len(roots[Origin].entries)
    /\ LET entries == roots[Origin].entries
           e == entries[entryIdx]
           r == visit(pol, verbose, Origin, roots[Origin].dev, e)
       IN /\ r.emit => Len(fileCh) < FileChCap
          /\ walk' = Some([walk[1] EXCEPT !.Notification = @ \o r.notes])
          /\ fileCh' = IF r.emit
                       THEN Append(fileCh, [path |-> NormalizePath(e.path, e.isDir), info |-> e])
                       ELSE fileCh
          /\ entryIdx' = NextEntry(entries, entryIdx, entryIdx + 1, r.skipDir)
    /\ UNCHANGED <<pol, verbose, roots, mainPc, rootIdx, perr, runErr, counter, walkMu,
                   fileChClosed, errChClosed, workerErrs, wk, cpc, cerr, callbacks>>

\* preformWalk: WalkDir returned nil; on to the next include.
PreformNextRoot ==
    /\ mainPc = "walk" /\ rootIdx <= Len(pol.Include)
    /\ entryIdx > Len(roots[Origin].entries)
    /\ rootIdx' = rootIdx + 1
    /\ entryIdx' = 0
    /\ UNCHANGED <<pol, verbose, roots, mainPc, perr, runErr, walk, counter, walkMu, fileCh,
                   fileChClosed, errChClosed, workerErrs, wk, cpc, cerr, callbacks>>

\* preformWalk returns nil after the last include.
PreformReturn ==
    /\ mainPc = "walk" /\ rootIdx > Len(pol.Include)
    /\ mainPc' = "closeFileCh"
    /\ UNCHANGED <<pol, verbose, roots, rootIdx, entryIdx, perr, runErr, walk, counter,
                   walkMu, fileCh, fileChClosed, errChClosed, workerErrs, wk, cpc, cerr,
                   callbacks>>

\* Run: close(fileCh).
RunCloseFileCh ==
    /\ mainPc = "closeFileCh"
    /\ fileChClosed' = TRUE
    /\ mainPc' = "wgWait"
    /\ UNCHANGED <<pol, verbose, roots, rootIdx, entryIdx, perr, runErr, walk, counter,
                   walkMu, fileCh, errChClosed, workerErrs, wk, cpc, cerr, callbacks>>

\* A faulty variant: the wait that lets one worker still run.
wgDoneAllButOne == \E w \in Workers : \A o \in Workers \ {w} : wk[o].pc = "done"

\* wg.Wait returns once every worker has called wg.Done.
wgDone == \A w \in Workers : wk[w].pc = "done"

\* Run: wg.Wait() and close(errCh).
RunWaitWorkers ==
    /\ mainPc = "wgWait"
    /\ wgDone
    /\ errChClosed' = TRUE
    /\ mainPc' = "waitDone"
    /\ UNCHANGED <<pol, verbose, roots, rootIdx, entryIdx, perr, runErr, walk, counter,
                   walkMu, fileCh, fileChClosed, workerErrs, wk, cpc, cerr, callbacks>>

\* Run: <-done, the rendezvous with the collector's send.
RunReceiveDone ==
    /\ mainPc = "waitDone"
    /\ cpc = "sendDone"
    /\ mainPc' = "notify"
    /\ cpc' = "recv"
    /\ UNCHANGED <<pol, verbose, roots, rootIdx, entryIdx, perr, runErr, walk, counter,
                   walkMu, fileCh, fileChClosed, errChClosed, workerErrs, wk, cerr,
                   callbacks>>

\* The ERROR notifications Run makes of the worker errors, in their order.
ErrorNotifications(errs) ==
    [i \in 1..Len(errs) |-> Notification("ERROR", errs[i].path, errs[i].err)]

\* Run: the worker errors become notifications and StopWalk is set.
RunFinishWalk ==
    /\ mainPc = "notify"
    /\ walk' = Some([walk[1] EXCEPT !.Notification = @ \o ErrorNotifications(workerErrs),
                                    !.StopWalk = Some(Time(2, 0))])
    /\ mainPc' = "callback"
    /\ UNCHANGED <<pol, verbose, roots, rootIdx, entryIdx, perr, runErr, counter, walkMu,
                   fileCh, fileChClosed, errChClosed, workerErrs, wk, cpc, cerr, callbacks>>

\* Run: no callback and nil is returned, or the callback is invoked with the
\* walk and its error is what Run returns.
RunCallback ==
    /\ mainPc = "callback"
    /\ \E cb \in {"nil", "succeeds", "fails"} :
          /\ callbacks' = IF cb = "nil" THEN callbacks ELSE Append(callbacks, walk[1])
          /\ runErr' = IF cb = "fails" THEN "callback failed" ELSE ""
    /\ mainPc' = "returned"
    /\ UNCHANGED <<pol, verbose, roots, rootIdx, entryIdx, perr, walk, counter, walkMu,
                   fileCh, fileChClosed, errChClosed, workerErrs, wk, cpc, cerr>>

\* What every worker and collector step leaves alone.
MainUnchanged == UNCHANGED <<pol, verbose, roots, rootIdx, entryIdx, perr, runErr, callbacks>>

\* worker: the range over fileCh receives the next file.
WorkerReceive(w) ==
    /\ Alive /\ wk[w].pc = "recv"
    /\ fileCh # <<>>
    /\ wk' = [wk EXCEPT ![w] = [@ EXCEPT !.pc = "hash", !.fi = Some(Head(fileCh))]]
    /\ fileCh' = Tail(fileCh)
    /\ MainUnchanged
    /\ UNCHANGED <<mainPc, walk, counter, walkMu, fileChClosed, errChClosed, workerErrs,
                   cpc, cerr>>

\* worker: fileCh is closed and drained; the range ends and wg.Done runs.
WorkerExit(w) ==
    /\ Alive /\ wk[w].pc = "recv"
    /\ fileCh = <<>> /\ fileChClosed
    /\ wk' = [wk EXCEPT ![w] = [@ EXCEPT !.pc = "done"]]
    /\ MainUnchanged
    /\ UNCHANGED <<mainPc, walk, counter, walkMu, fileCh, fileChClosed, errChClosed,
                   workerErrs, cpc, cerr>>

\* convert: the hash of a file that is to be hashed; a failure is to be sent
\* on errCh and leaves the File without a fingerprint.
WorkerHash(w) ==
    /\ Alive /\ wk[w].pc = "hash"
    /\ LET fi == wk[w].fi[1]
       IN IF ~Hashes(pol, fi)
          THEN wk' = [wk EXCEPT ![w] = [@ EXCEPT !.pc = "stat"]]
          ELSE IF fi.info.unreadable
          THEN wk' = [wk EXCEPT ![w] = [@ EXCEPT !.pc = "sendHashErr",
                        !.pending = Some(workerErr(Clean(fi.path), "unable to build hash"))]]
          ELSE wk' = [wk EXCEPT ![w] = [@ EXCEPT !.pc = "stat",
                        !.fps = <<SHA256(Sha256Hex(fi.info.content))>>]]
    /\ MainUnchanged
    /\ UNCHANGED <<mainPc, walk, counter, walkMu, fileCh, fileChClosed, errChClosed,
                   workerErrs, cpc, cerr>>

\* convert: the send on the unbuffered errCh, received by the collector's
\* range. A send on a closed channel panics.
WorkerSendErr(w) ==
    /\ Alive /\ wk[w].pc \in {"sendHashErr", "sendStatErr"}
    /\ IF errChClosed
       THEN /\ mainPc' = "crashed"
            /\ UNCHANGED <<wk, cpc, cerr>>
       ELSE /\ cpc = "recv"
            /\ cerr' = wk[w].pending
            /\ cpc' = "append"
            /\ wk' = [wk EXCEPT ![w] = [@ EXCEPT !.pending = Nil,
                         !.pc = IF wk[w].pc = "sendHashErr" THEN "stat" ELSE "lock"]]
            /\ UNCHANGED mainPc
    /\ MainUnchanged
    /\ UNCHANGED <<walk, counter, walkMu, fileCh, fileChClosed, errChClosed, workerErrs>>

\* convert: Info and Stat; when fsstat.ToStat fails Stat stays nil and the
\* error is to be sent on errCh.
WorkerStat(w) ==
    /\ Alive /\ wk[w].pc = "stat"
    /\ LET fi == wk[w].fi[1]
       IN IF fi.info.hasSys
          THEN wk' = [wk EXCEPT ![w] = [@ EXCEPT !.pc = "lock",
                        !.f = Some(convert(fi, wk[w].fps, Some(StatOf(fi.info))))]]
          ELSE wk' = [wk EXCEPT ![w] = [@ EXCEPT !.pc = "sendStatErr",
                        !.f = Some(convert(fi, wk[w].fps, Nil)),
                        !.pending = Some(workerErr(Clean(fi.path), "unable to get file stat"))]]
    /\ MainUnchanged
    /\ UNCHANGED <<mainPc, walk, counter, walkMu, fileCh, fileChClosed, errChClosed,
                   workerErrs, cpc, cerr>>

\* A faulty variant of the step: the worker goes on without waiting for walkMu.
WorkerLockNoWait(w) ==
    /\ Alive /\ wk[w].pc = "lock"
    /\ IF verbose /\ wk[w].f[1].Stat = Nil
       THEN /\ mainPc' = "crashed"
            /\ UNCHANGED <<wk, walkMu>>
       ELSE /\ walkMu' = w
            /\ wk' = [wk EXCEPT ![w] = [@ EXCEPT !.pc = "append"]]
            /\ UNCHANGED mainPc
    /\ MainUnchanged
    /\ UNCHANGED <<walk, counter, fileCh, fileChClosed, errChClosed, workerErrs, cpc, cerr>>

\* process: the verbose overview reads f.Stat.Uid, a nil dereference when
\* Stat is nil; then walkMu.Lock.
WorkerLock(w) ==
    /\ Alive /\ wk[w].pc = "lock"
    /\ IF verbose /\ wk[w].f[1].Stat = Nil
       THEN /\ mainPc' = "crashed"
            /\ UNCHANGED <<wk, walkMu>>
       ELSE /\ walkMu = 0
            /\ walkMu' = w
            /\ wk' = [wk EXCEPT ![w] = [@ EXCEPT !.pc = "append"]]
            /\ UNCHANGED mainPc
    /\ MainUnchanged
    /\ UNCHANGED <<walk, counter, fileCh, fileChClosed, errChClosed, workerErrs, cpc, cerr>>

\* A faulty variant of the step: the File takes the place of the last
\* record of the walk, as an append to a stale copy of the list would.
WorkerAppendStale(w) ==
    /\ Alive /\ wk[w].pc = "append" /\ walkMu = w
    /\ walk' = Some([walk[1] EXCEPT
                        !.File = IF @ = <<>> THEN <<wk[w].f[1]>>
                                 ELSE Append(SubSeq(@, 1, Len(@) - 1), wk[w].f[1])])
    /\ counter' = CountFile(counter, wk[w].f[1])
    /\ walkMu' = 0
    /\ wk' = [wk EXCEPT ![w] = [IdleWorker EXCEPT !.pc = "recv"]]
    /\ MainUnchanged
    /\ UNCHANGED <<mainPc, fileCh, fileChClosed, errChClosed, workerErrs, cpc, cerr>>

\* process: the File is appended to the walk and counted, then the deferred
\* walkMu.Unlock runs.
WorkerAppend(w) ==
    /\ Alive /\ wk[w].pc = "append" /\ walkMu = w
    /\ walk' = Some([walk[1] EXCEPT !.File = Append(@, wk[w].f[1])])
    /\ counter' = CountFile(counter, wk[w].f[1])
    /\ walkMu' = 0
    /\ wk' = [wk EXCEPT ![w] = [IdleWorker EXCEPT !.pc = "recv"]]
    /\ MainUnchanged
    /\ UNCHANGED <<mainPc, fileCh, fileChClosed, errChClosed, workerErrs, cpc, cerr>>

\* collector: the body of the range over errCh.
CollectorAppend ==
    /\ Alive /\ cpc = "append"
    /\ workerErrs' = Append(workerErrs, cerr[1])
    /\ cerr' = Nil
    /\ cpc' = "recv"
    /\ MainUnchanged
    /\ UNCHANGED <<mainPc, walk, counter, walkMu, fileCh, fileChClosed, errChClosed, wk>>

\* collector: errCh is closed, the range ends and the send on done is next.
CollectorRangeEnd ==
    /\ Alive /\ cpc = "recv"
    /\ errChClosed
    /\ cpc' = "sendDone"
    /\ MainUnchanged
    /\ UNCHANGED <<mainPc, walk, counter, walkMu, fileCh, fileChClosed, errChClosed,
                   workerErrs, wk, cerr>>

NextRun ==
    /\ \/ RunStart
       \/ PreformStatRoot
       \/ PreformVisit
       \/ PreformNextRoot
       \/ PreformReturn
       \/ RunCloseFileCh
       \/ RunWaitWorkers
       \/ RunReceiveDone
       \/ RunFinishWalk
       \/ RunCallback
       \/ \E w \in Workers :
             \/ WorkerReceive(w)
             \/ WorkerExit(w)
             \/ WorkerHash(w)
             \/ WorkerSendErr(w)
             \/ WorkerStat(w)
             \/ WorkerLock(w)
             \/ WorkerAppend(w)
       \/ CollectorAppend
       \/ CollectorRangeEnd
    /\ UNCHANGED <<pathVars, cmpVars, trustVars, rptVars>>

SpecRun == InitRun /\ [][NextRun]_vars

\* ------------------------------------------------------------------------
\* C9, C10: the end of Run.

CallbackInvoked == callbacks # <<>>

ErrorsOf(w) == SelectSeq(w.Notification, LAMBDA n : n.Severity = "ERROR")

\* C9: WalkCallback is invoked at most once per Run, and when it has been
\* invoked every worker has finished with nothing left in fileCh or in its
\* hands, every worker error has been collected and is an ERROR notification
\* of the walk it was handed, that walk carries its stop time, and the walk
\* has not changed since.
C9_CallbackAfterBarrier ==
    /\ Len(callbacks) <= 1
    /\ CallbackInvoked =>
          /\ mainPc = "returned"
          /\ fileCh = <<>>
          /\ \A w \in Workers : wk[w].pc = "done" /\ wk[w].f = Nil /\ wk[w].pending = Nil
          /\ cerr = Nil
          /\ ErrorsOf(callbacks[1]) = ErrorNotifications(workerErrs)
          /\ callbacks[1].StopWalk # Nil
          /\ walk = Some(callbacks[1])

\* A Run whose callback got a walk with two files or more and a worker error.
C9_Witness ==
    /\ CallbackInvoked
    /\ Len(callbacks[1].File) >= 2
    /\ Len(ErrorsOf(callbacks[1])) >= 1

\* An include root that os.Stat failed on.
RootStatFailed == perr = "unable to get file info for base path"

\* C10: when an include root cannot be stat'ed, Run returns an error and
\* WalkCallback is not invoked.
C10_RootStatFailureAborts ==
    (mainPc = "returned" /\ RootStatFailed) => (runErr # "" /\ ~CallbackInvoked)

\* ------------------------------------------------------------------------
\* C11..C14: what a finished Run hands to the callback.

\* The entries the WalkDir callback sends on fileCh from index i on.
RECURSIVE SentFrom(_, _, _, _)
SentFrom(entries, i, origin, dev) ==
    IF i > Len(entries) THEN <<>>
    ELSE LET r == visit(pol, verbose, origin, dev, entries[i])
         IN (IF r.emit THEN <<entries[i]>> ELSE <<>>)
            \o SentFrom(entries, NextEntry(entries, i, i + 1, r.skipDir), origin, dev)

\* The entries preformWalk sends from the k-th include on; it stops at an
\* include it cannot stat.
RECURSIVE SentRoots(_)
SentRoots(k) ==
    IF k > Len(pol.Include) THEN <<>>
    ELSE LET o == Clean(pol.Include[k])
         IN IF ~roots[o].ok THEN <<>>
            ELSE SentFrom(roots[o].entries, 1, o, roots[o].dev) \o SentRoots(k + 1)

SentEntries == SentRoots(1)

RecordsAt(w, p) == SelectSeq(w.File, LAMBDA f : f.Path = p)
ErrorsAt(w, p) == SelectSeq(ErrorsOf(w), LAMBDA n : n.Path = p)

HashFails(e) == Hashes(pol, [path |-> NormalizePath(e.path, e.isDir), info |-> e]) /\ e.unreadable
StatFails(e) == ~e.hasSys

\* C11: a failure to hash or to stat an emitted entry does not stop the
\* walk. No goroutine of Run panics, and the walk handed to the callback
\* holds, for every entry that was sent to the workers, exactly one File
\* record (without a Fingerprint when hashing failed, with its Info and
\* without a Stat when the stat failed) and one ERROR notification for its
\* path per failure.
C11_FailuresRecorded ==
    /\ mainPc # "crashed"
    /\ CallbackInvoked =>
          \A i \in 1..Len(SentEntries) :
              LET e == SentEntries[i]
                  recs == RecordsAt(callbacks[1], Clean(e.path))
                  errs == ErrorsAt(callbacks[1], Clean(e.path))
              IN /\ Len(recs) = 1
                 /\ HashFails(e) => recs[1].Fingerprint = <<>>
                 /\ StatFails(e) => (recs[1].Stat = Nil /\ recs[1].Info = InfoOf(e))
                 /\ Len(errs) = (IF HashFails(e) THEN 1 ELSE 0) + (IF StatFails(e) THEN 1 ELSE 0)

\* The entry of the file system a File record was made from.
EntryOf(f) ==
    CHOOSE e \in UNION {{roots[r].entries[i] : i \in DOMAIN roots[r].entries} : r \in DOMAIN roots} :
        Clean(e.path) = f.Path

HashExcluded(e) == isExcluded(NormalizePath(e.path, e.isDir), pol.ExcludeHashing)

\* C12: at every moment of a Run, a File record of the walk has a
\* Fingerprint only if its entry is a regular file, not excluded from
\* hashing and of at most MaxHashFileSize bytes; a readable regular file of
\* exactly MaxHashFileSize bytes that is not excluded from hashing has
\* exactly one Fingerprint, the SHA256 of its content, and a file of
\* MaxHashFileSize + 1 bytes has none.
C12_FingerprintOnlyWithinLimit ==
    walk # Nil =>
        \A i \in 1..Len(walk[1].File) :
            LET f == walk[1].File[i]
                e == EntryOf(f)
            IN /\ f.Fingerprint # <<>> =>
                     (e.regular /\ ~HashExcluded(e) /\ e.size <= pol.MaxHashFileSize)
               /\ (e.regular /\ ~HashExcluded(e) /\ ~e.unreadable
                     /\ e.size = pol.MaxHashFileSize) =>
                     f.Fingerprint = <<SHA256(Sha256Hex(e.content))>>
               /\ e.size = pol.MaxHashFileSize + 1 => f.Fingerprint = <<>>

\* A walk handed to the callback with a fingerprinted file of exactly the
\* limit and a file one byte larger.
C12_Witness ==
    /\ CallbackInvoked
    /\ \E i, j \in 1..Len(callbacks[1].File) :
          /\ callbacks[1].File[i].Fingerprint # <<>>
          /\ EntryOf(callbacks[1].File[i]).size = pol.MaxHashFileSize
          /\ EntryOf(callbacks[1].File[j]).regular
          /\ EntryOf(callbacks[1].File[j]).size = pol.MaxHashFileSize + 1
          /\ callbacks[1].File[j].Fingerprint = <<>>

\* The include roots preformWalk gets to: those up to the first it cannot stat.
WalkedRoots ==
    {Clean(pol.Include[k]) : k \in {j \in 1..Len(pol.Include) :
                                       \A h \in 1..j : roots[Clean(pol.Include[h])].ok}}

EntriesOf(o) == {roots[o].entries[i] : i \in DOMAIN roots[o].entries}

\* The depth of an entry below its include root: 0 for the root itself.
DepthBelow(o, e) == Len(Split(Clean(e.path))) - Len(Split(o))

\* Whether p is the directory d or lies beneath it.
Beneath(p, d) ==
    LET c == Clean(d)
        q == Clean(p)
    IN \/ q = c
       \/ IF c = <<".">>
          THEN q[1] # Separator /\ q # <<".", ".">> /\ ~HasPrefix(q, <<".", ".", Separator>>)
          ELSE HasPrefix(q, IF c[Len(c)] = Separator THEN c ELSE Append(c, Separator))

WarningsOf(w) == SelectSeq(w.Notification, LAMBDA n : n.Severity = "WARNING")

\* C13: with no exclude list and a depth limit D, the walk handed to the
\* callback has a File record for every entry of depth at most D below its
\* include root (for every entry when D = 0), and for an entry deeper than
\* D it has no record and a WARNING for the entry or a directory above it.
C13_DepthLimit ==
    (CallbackInvoked /\ pol.Exclude = <<>>) =>
        \A o \in WalkedRoots : \A e \in EntriesOf(o) :
            LET D == pol.MaxDirectoryDepth
                recs == RecordsAt(callbacks[1], Clean(e.path))
                warned == WarningsOf(callbacks[1])
            IN /\ (D = 0 \/ DepthBelow(o, e) <= D) => Len(recs) = 1
               /\ (D > 0 /\ DepthBelow(o, e) > D) =>
                     /\ recs = <<>>
                     /\ \E i \in 1..Len(warned) : Beneath(e.path, warned[i].Path)

\* The directories of the walked roots that the exclude list names.
ExcludedDirs ==
    {e \in UNION {EntriesOf(o) : o \in WalkedRoots} :
        e.isDir /\ isExcluded(NormalizePath(e.path, e.isDir), pol.Exclude)}

\* C14: at every moment of a Run no File record of the walk has a
\* normalized path the exclude list excludes, and none lies beneath an
\* excluded directory; with no depth limit, the walk handed to the callback
\* has a File record for every entry of a walked root that is neither
\* excluded nor beneath an excluded directory.
C14_ExcludedNeverRecorded ==
    walk # Nil =>
        /\ \A i \in 1..Len(walk[1].File) :
              LET f == walk[1].File[i]
              IN /\ ~isExcluded(NormalizePath(f.Path, f.Info.IsDir), pol.Exclude)
                 /\ \A d \in ExcludedDirs : ~Beneath(f.Path, d.path)
        /\ (CallbackInvoked /\ pol.MaxDirectoryDepth = 0) =>
              \A o \in WalkedRoots : \A e \in EntriesOf(o) :
                  ( /\ ~isExcluded(NormalizePath(e.path, e.isDir), pol.Exclude)
                    /\ \A d \in ExcludedDirs : ~Beneath(e.path, d.path) )
                  => Len(RecordsAt(callbacks[1], Clean(e.path))) = 1

\* A walk handed to the callback with an excluded directory left out, its
\* content left out, and a file beside it recorded.
C14_Witness ==
    /\ CallbackInvoked
    /\ RootA \in DOMAIN roots
    /\ \E d \in ExcludedDirs :
          /\ \E e \in EntriesOf(RootA) : e.path # d.path /\ Beneath(e.path, d.path)
          /\ \A e \in EntriesOf(RootA) :
                Beneath(e.path, d.path) => RecordsAt(callbacks[1], Clean(e.path)) = <<>>
          /\ \E e \in EntriesOf(RootA) :
                /\ ~e.isDir /\ ~Beneath(e.path, d.path)
                /\ Len(RecordsAt(callbacks[1], Clean(e.path))) = 1

\* ------------------------------------------------------------------------
\* SpecDiff: Compare of two inventories that each hold one File record for
\* /a. The records deviate from one base record in one group of fields:
\* the fingerprint, one field of Info, one field of Stat, or the Stat's
\* ctime and mtime.

BaseFile == MkFile(PA, FALSE, 1, 1, <<SHA256("H1")>>)

DiffFingerprints ==
    {<<>>, <<SHA256("H1")>>, <<SHA256("H2")>>,
     <<[Method |-> "UNKNOWN", Value |-> "H1"]>>, <<[Method |-> "UNKNOWN", Value |-> "H2"]>>}

DiffTimes == {Nil, Some(Time(1, 0)), Some(Time(1, 5)), Some(Time(2, 0)), Some(Time(3, 0))}

InfoVariants ==
    {[BaseFile.Info EXCEPT !.Name = <<"b">>], [BaseFile.Info EXCEPT !.Size = 2],
     [BaseFile.Info EXCEPT !.Mode = 2], [BaseFile.Info EXCEPT !.IsDir = TRUE]}
    \cup {[BaseFile.Info EXCEPT !.Modified = t] : t \in DiffTimes}

StatVariants ==
    {[BaseStat EXCEPT !.Dev = 2], [BaseStat EXCEPT !.Inode = 2], [BaseStat EXCEPT !.Nlink = 2],
     [BaseStat EXCEPT !.Mode = 2], [BaseStat EXCEPT !.Uid = 1], [BaseStat EXCEPT !.Gid = 1],
     [BaseStat EXCEPT !.Rdev = 1], [BaseStat EXCEPT !.Size = 2], [BaseStat EXCEPT !.Blksize = 2],
     [BaseStat EXCEPT !.Blocks = 2], [BaseStat EXCEPT !.Atime = Some(Time(2, 0))]}
    \cup {[BaseStat EXCEPT !.Ctime = c, !.Mtime = m] : c \in DiffTimes, m \in DiffTimes}

DiffFiles ==
    {[BaseFile EXCEPT !.Fingerprint = fps] : fps \in DiffFingerprints}
    \cup {[BaseFile EXCEPT !.Info = i] : i \in InfoVariants}
    \cup {[BaseFile EXCEPT !.Stat = Some(st)] : st \in StatVariants}
    \cup {[BaseFile EXCEPT !.Stat = Nil]}

InitDiff ==
    /\ before \in {Some(MkWalk("w1", 1, "h1", Time(0, 0), Time(1, 0), <<f>>)) : f \in DiffFiles}
    /\ after \in {Some(MkWalk("w2", 1, "h1", Time(2, 0), Time(4, 0), <<f>>)) : f \in DiffFiles}
    /\ configExclude \in {<<>>, <<PA>>}
    /\ cmpPc = "idle"
    /\ cmpRes = NoReport("none", "")
    /\ PathAtRest
    /\ TrustAtRest
    /\ RunAtRest
    /\ RptAtRest

SpecDiff == InitDiff /\ [][NextCompare]_vars

\* The two File records of the pair, and the diff Compare reports for it:
\* the Diff of the Modified entry, or no line when there is none.
FileBefore == before[1].File[1]
FileAfter == after[1].File[1]
PairCompared ==
    /\ Reported
    /\ configExclude = <<>>
    /\ FileBefore.Info.IsDir = FileAfter.Info.IsDir
PairDiff == IF cmpRes.Modified = <<>> THEN <<>> ELSE cmpRes.Modified[1].Diff
LinesOf(labels) == SelectSeq(PairDiff, LAMBDA l : l.label \in labels)

\* C15: in the diff of a file pair, no fingerprint before gives no
\* fingerprint line whatever after has; a fingerprint before and none after
\* gives exactly one line, for its disappearance; a fingerprint on both
\* sides gives one line for the method if the methods differ and one for
\* the value if the values differ, and no other fingerprint line.
C15_FingerprintLines ==
    PairCompared =>
        LET fb == FileBefore.Fingerprint
            fa == FileAfter.Fingerprint
            lines == LinesOf({"fingerprint", "fingerprint-method"})
        IN /\ fb = <<>> => lines = <<>>
           /\ (fb # <<>> /\ fa = <<>>) => lines = <<Line("fingerprint", fb[1].Value, "")>>
           /\ (fb # <<>> /\ fa # <<>>) =>
                 /\ LinesOf({"fingerprint-method"}) =
                       IF fb[1].Method # fa[1].Method
                       THEN <<Line("fingerprint-method", fb[1].Method, fa[1].Method)>>
                       ELSE <<>>
                 /\ LinesOf({"fingerprint"}) =
                       IF fb[1].Value # fa[1].Value
                       THEN <<Line("fingerprint", fb[1].Value, fa[1].Value)>>
                       ELSE <<>>

\* A pair whose fingerprints differ in method and in value: two lines.
C15_Witness ==
    /\ PairCompared
    /\ FileBefore.Fingerprint # <<>> /\ FileAfter.Fingerprint # <<>>
    /\ FileBefore.Fingerprint[1].Method # FileAfter.Fingerprint[1].Method
    /\ FileBefore.Fingerprint[1].Value # FileAfter.Fingerprint[1].Value
    /\ Len(LinesOf({"fingerprint", "fingerprint-method"})) = 2

\* The Stat timestamps of the pair as instants, and the time from the
\* before instant to the after instant as <<seconds, nanoseconds>> with the
\* nanoseconds in 0..999999999.
StatTime(f, field) == AsTime(IF f.Stat = Nil THEN Nil ELSE f.Stat[1][field])
TimeDelta(b, a) ==
    IF a.Nanos < b.Nanos
    THEN <<a.Seconds - b.Seconds - 1, a.Nanos - b.Nanos + 1000000000>>
    ELSE <<a.Seconds - b.Seconds, a.Nanos - b.Nanos>>
CtimeDiffers == ~TimeEqual(StatTime(FileBefore, "Ctime"), StatTime(FileAfter, "Ctime"))
MtimeDiffers == ~TimeEqual(StatTime(FileBefore, "Mtime"), StatTime(FileAfter, "Mtime"))
CtimeLineEmitted == LinesOf({"ctime"}) # <<>>

\* C16 as stated: a ctime line is emitted iff ctime differs between before
\* and after and the ctime delta differs from the mtime delta.
C16_CtimeIffDeltaDiffers ==
    PairCompared =>
        (CtimeLineEmitted <=>
            /\ CtimeDiffers
            /\ TimeDelta(StatTime(FileBefore, "Ctime"), StatTime(FileAfter, "Ctime"))
                 # TimeDelta(StatTime(FileBefore, "Mtime"), StatTime(FileAfter, "Mtime")))

\* C16, amended: a ctime line is emitted iff ctime differs between before
\* and after, unless mtime differs too and ctime and mtime are in the same
\* second before and in the same second after. A ctime change with mtime
\* unchanged is emitted.
C16_CtimeIffValuesDiffer ==
    PairCompared =>
        /\ CtimeLineEmitted <=>
              /\ CtimeDiffers
              /\ ~ ( /\ MtimeDiffers
                     /\ StatTime(FileBefore, "Ctime").Seconds = StatTime(FileBefore, "Mtime").Seconds
                     /\ StatTime(FileAfter, "Ctime").Seconds = StatTime(FileAfter, "Mtime").Seconds )
        /\ (CtimeDiffers /\ ~MtimeDiffers) => CtimeLineEmitted

\* A pair whose ctime and mtime move by the same amount from different
\* values: the ctime line is emitted.
C16_Witness ==
    /\ PairCompared
    /\ CtimeDiffers /\ MtimeDiffers
    /\ TimeDelta(StatTime(FileBefore, "Ctime"), StatTime(FileAfter, "Ctime"))
         = TimeDelta(StatTime(FileBefore, "Mtime"), StatTime(FileAfter, "Mtime"))
    /\ CtimeLineEmitted

\* The labels of the Info fields whose values differ between the pair.
InfoDifferences ==
    LET ib == FileBefore.Info
        ia == FileAfter.Info
    IN {l \in {"name", "size", "mode", "is_dir", "mtime"} :
          \/ l = "name" /\ ib.Name # ia.Name
          \/ l = "size" /\ ib.Size # ia.Size
          \/ l = "mode" /\ ib.Mode # ia.Mode
          \/ l = "is_dir" /\ ib.IsDir # ia.IsDir
          \/ l = "mtime" /\ ~TimeEqual(AsTime(ib.Modified), AsTime(ia.Modified))}

\* C17: for a file recorded under the same path in both inventories and
\* not excluded, every difference in the Info name, size, mode, is-directory
\* flag or modification time is reported: the path is in Modified, and its
\* diff has a line for each field that differs.
C17_InfoDifferenceModified ==
    (Reported /\ configExclude = <<>> /\ FileBefore.Path = FileAfter.Path
        /\ InfoDifferences # {}) =>
        /\ Len(cmpRes.Modified) = 1
        /\ \A l \in InfoDifferences : LinesOf({l}) # <<>>

\* The Stat fields whose values differ between the pair.
StatFields ==
    {"Dev", "Inode", "Nlink", "Mode", "Uid", "Gid", "Rdev", "Size", "Blksize", "Blocks",
     "Atime", "Mtime", "Ctime"}
StatDifferences ==
    IF FileBefore.Stat = Nil /\ FileAfter.Stat = Nil THEN {}
    ELSE {f \in StatFields : FileBefore.Stat[1][f] # FileAfter.Stat[1][f]}
NeverCompared == {"Atime", "Inode", "Nlink", "Dev", "Rdev", "Blksize", "Blocks"}
OnlyStatDiffers ==
    /\ FileBefore.Fingerprint = FileAfter.Fingerprint
    /\ FileBefore.Info = FileAfter.Info
    /\ FileBefore.Version = FileAfter.Version

\* C18: two File records for one path that differ only in Stat atime,
\* inode, link count, device, rdev, block size or block count have an empty
\* diff and the path is not Modified; a difference in Stat uid or gid
\* gives a diff line for it and a Modified entry.
C18_StatFieldsCompared ==
    PairCompared =>
        /\ (OnlyStatDiffers /\ StatDifferences \subseteq NeverCompared) =>
              cmpRes.Modified = <<>>
        /\ "Uid" \in StatDifferences =>
              /\ Len(cmpRes.Modified) = 1
              /\ LinesOf({"uid"}) =
                    <<Line("uid", FileBefore.Stat[1].Uid, FileAfter.Stat[1].Uid)>>
        /\ "Gid" \in StatDifferences =>
              /\ Len(cmpRes.Modified) = 1
              /\ LinesOf({"gid"}) =
                    <<Line("gid", FileBefore.Stat[1].Gid, FileAfter.Stat[1].Gid)>>

\* A pair that differs in the inode and in one more field that is never
\* compared, and is not Modified.
C18_Witness ==
    /\ PairCompared /\ OnlyStatDiffers
    /\ "Inode" \in StatDifferences
    /\ Cardinality(StatDifferences) = 2
    /\ StatDifferences \subseteq NeverCompared
    /\ cmpRes.Modified = <<>>

\* ------------------------------------------------------------------------
\* C19, C20: the report as a whole, under SpecCompare.

\* The orders a sequence of File records can be in.
Reorderings(fs) ==
    {[i \in 1..Len(fs) |-> fs[f[i]]] :
        f \in {g \in [1..Len(fs) -> 1..Len(fs)] :
                  \A i, j \in 1..Len(fs) : i # j => g[i] # g[j]}}

Reordered(w, fs) == IF w = Nil THEN Nil ELSE Some([w[1] EXCEPT !.File = fs])

StrictlyAscending(list) ==
    \A i \in 1..(Len(list) - 1) : StrLess(EntryPath(list[i]), EntryPath(list[i + 1]))

\* C19: in every report each of Added, Deleted, Modified and Errors is in
\* strictly ascending path order, and Compare returns the same four lists
\* for every order of the File records inside before and inside after (the
\* normalized paths inside one inventory are pairwise different).
C19_DeterministicReport ==
    Reported =>
        /\ StrictlyAscending(cmpRes.Added)
        /\ StrictlyAscending(cmpRes.Deleted)
        /\ StrictlyAscending(cmpRes.Modified)
        /\ StrictlyAscending(cmpRes.Errors)
        /\ \A fb \in Reorderings(FilesOf(before)) : \A fa \in Reorderings(FilesOf(after)) :
              LET r == Compare(Reordered(before, fb), Reordered(after, fa), configExclude)
              IN /\ r.kind = "report"
                 /\ r.Added = cmpRes.Added
                 /\ r.Deleted = cmpRes.Deleted
                 /\ r.Modified = cmpRes.Modified
                 /\ r.Errors = cmpRes.Errors

\* A report with two Deleted entries from a before inventory that lists
\* the later path first.
C19_Witness ==
    /\ Reported
    /\ Len(cmpRes.Deleted) = 2
    /\ StrLess(before[1].File[2].Path, before[1].File[1].Path)

\* C20: when the diff of one file pair fails, as it does for two File
\* records of different file format versions, the report is returned with
\* exactly one Errors entry for that path, carrying the error and both
\* records, and no Modified entry for it; every other path is classified as
\* it is without the failing pair.
C20_DiffErrorRecorded ==
    (cmpPc = "done" /\ sanityCheck(before, after) = "" /\ before # Nil) =>
        \A k \in NormalizedPaths(before) \cap NormalizedPaths(after) :
            ( /\ ~ClaimExcluded(k, configExclude)
              /\ FileAt(before, k).Version # FileAt(after, k).Version ) =>
            /\ cmpRes.kind = "report"
            /\ Len(SelectSeq(cmpRes.Errors, LAMBDA e : EntryPath(e) = k)) = 1
            /\ \A i \in 1..Len(cmpRes.Errors) :
                  EntryPath(cmpRes.Errors[i]) = k =>
                      /\ cmpRes.Errors[i].Err = "file format versions don't match"
                      /\ cmpRes.Errors[i].Before = Some(FileAt(before, k))
                      /\ cmpRes.Errors[i].After = Some(FileAt(after, k))
            /\ k \notin ListPaths(cmpRes.Modified)
            /\ LET without(w) == SelectSeq(FilesOf(w), LAMBDA f :
                                     NormalizePath(f.Path, f.Info.IsDir) # k)
                   r == Compare(Reordered(before, without(before)),
                                Reordered(after, without(after)), configExclude)
               IN /\ r.Added = cmpRes.Added
                  /\ r.Deleted = cmpRes.Deleted
                  /\ r.Modified = cmpRes.Modified

\* A report with an Errors entry for /a beside a path that is classified.
C20_Witness ==
    /\ Reported
    /\ ListPaths(cmpRes.Errors) = {PA}
    /\ cmpRes.Errors[1].Err # ""
    /\ Len(cmpRes.Added) + Len(cmpRes.Deleted) >= 1

\* ------------------------------------------------------------------------
\* C21..C22: the paths of the File records and the exclude list of a Run.

\* The File records of the walk the callback was handed.
CallbackFiles == callbacks[1].File

EndsWithSeparator(p) == p # <<>> /\ p[Len(p)] = Separator

\* C21 as stated: every File record of the walk handed to the callback has
\* a non-empty path equal to NormalizePath(path, isDir), so that the path of
\* a directory record ends with a separator and the path of any other
\* record does not.
C21_PathsNormalized ==
    CallbackInvoked =>
        \A i \in 1..Len(CallbackFiles) :
            LET f == CallbackFiles[i]
            IN /\ f.Path # <<>>
               /\ f.Path = NormalizePath(f.Path, f.Info.IsDir)
               /\ f.Info.IsDir <=> EndsWithSeparator(f.Path)

\* C21: every File record of the walk handed to the callback has a
\* non-empty path that is the cleaned path of the entry it was made from,
\* with the directory flag of that entry: it equals filepath.Clean of
\* itself, and it ends with a separator only when it is the root "/",
\* whether or not the record is a directory.
C21_PathsCleaned ==
    CallbackInvoked =>
        \A i \in 1..Len(CallbackFiles) :
            LET f == CallbackFiles[i]
            IN /\ f.Path # <<>>
               /\ f.Path = Clean(f.Path)
               /\ EndsWithSeparator(f.Path) => f.Path = <<Separator>>
               /\ \E j \in 1..Len(SentEntries) :
                     /\ f.Path = Clean(SentEntries[j].path)
                     /\ f.Info.IsDir = SentEntries[j].isDir

\* A walk handed to the callback with the record of a directory and the
\* record of a file.
C21_Witness ==
    /\ CallbackInvoked
    /\ \E i, j \in 1..Len(CallbackFiles) :
          /\ CallbackFiles[i].Info.IsDir
          /\ ~EndsWithSeparator(CallbackFiles[i].Path)
          /\ ~CallbackFiles[j].Info.IsDir

\* The entries WalkDir finds under the include roots preformWalk gets to.
WalkedEntries == UNION {EntriesOf(o) : o \in WalkedRoots}

\* C22 as stated: the excludes of the policy are literal string prefixes. An
\* entry whose path starts with an exclude entry has no File record in the
\* walk handed to the callback; with the include / and the exclude /home
\* neither /home nor /homeofme/important.file has one.
C22_LiteralPrefixExcludes ==
    CallbackInvoked =>
        /\ \A e \in WalkedEntries :
              isExcludedLiteral(NormalizePath(e.path, e.isDir), pol.Exclude) =>
                  RecordsAt(callbacks[1], Clean(e.path)) = <<>>
        /\ pol = HomePolicy =>
              /\ RecordsAt(callbacks[1], Home) = <<>>
              /\ RecordsAt(callbacks[1], HomeOfMeFile) = <<>>

\* ------------------------------------------------------------------------
\* SpecReporter: one run of the reporter command (cmd/reporter), from its
\* flags to its exit, on a review file and the walk files F1 and F2.

\* An empty flag value where the flag names a walk file.
NoFile == <<>>

Flags(configFile, hostname, reviewFile, walkPath, beforeFile, afterFile, updateReview) ==
    [configFile |-> configFile, hostname |-> hostname, reviewFile |-> reviewFile,
     walkPath |-> walkPath, beforeFile |-> beforeFile, afterFile |-> afterFile,
     updateReview |-> updateReview]

\* The command lines: the latest walk of h1 against its last known good
\* one; after-file alone or with a before-file, with or without a review
\* file; both groups of flags; neither; no config file or one that does not
\* decode.
ReporterFlags ==
    {Flags("cfg", "h1", ReviewFilePath, "walks", NoFile, NoFile, u) : u \in BOOLEAN}
    \cup {Flags("cfg", "", rf, "", bf, F2, u) :
            rf \in {"", ReviewFilePath}, bf \in {NoFile, F1}, u \in BOOLEAN}
    \cup {Flags("cfg", "h1", ReviewFilePath, "walks", NoFile, F2, TRUE),
          Flags("cfg", "", "", "", NoFile, NoFile, TRUE),
          Flags("", "h1", ReviewFilePath, "walks", NoFile, NoFile, TRUE),
          Flags("bad", "h1", ReviewFilePath, "walks", NoFile, NoFile, TRUE)}

\* What F2 holds: a later walk of h1 without or with a file, a walk of
\* another host, bytes that are no Walk, or nothing.
LaterWalks ==
    {MkWalk("w2", 1, "h1", Time(2, 0), Time(3, 0), fs) :
        fs \in {<<>>, <<MkFile(PA, FALSE, 1, 1, <<SHA256("H1")>>)>>}}
ReporterDisks ==
    {[p \in WalkPaths |-> IF p = F1 THEN WalkBlob(Walk1) ELSE b] :
        b \in {WalkBlob(w) : w \in LaterWalks \cup {Walk2}}
              \cup {[kind |-> "garbage", walk |-> Nil], [kind |-> "missing", walk |-> Nil]}}

\* filepath.Glob for the walks of the host in walkPath, sorted: the walk
\* files that exist, F1 before F2.
GlobWalks(d) == SelectSeq(<<F1, F2>>, LAMBDA p : FileExists(d, p))

\* ReadLatestWalk: [wf, err].
ReadLatestWalk(d) ==
    LET names == GlobWalks(d)
    IN IF names = <<>> THEN [wf |-> Nil, err |-> "no files found"]
       ELSE LET r == ReadWalk(d, names[Len(names)]) IN [wf |-> r.wf, err |-> r.err]

\* walksByLatest: [before, after, err].
walksByLatest(store, d, hostname) ==
    LET b == ReadLastGoodWalk(store, d, hostname)
        a == ReadLatestWalk(d)
    IN IF b.err # ""
       THEN [before |-> Nil, after |-> Nil, err |-> "unable to load last good walk"]
       ELSE IF a.err # ""
       THEN [before |-> Nil, after |-> Nil, err |-> "unable to load latest walk"]
       ELSE [before |-> b.wf, after |-> a.wf, err |-> ""]

\* walksByFiles: [before, after, err].
walksByFiles(d, beforeFile, afterFile) ==
    LET a == ReadWalk(d, afterFile)
        b == ReadWalk(d, beforeFile)
    IN IF a.err # ""
       THEN [before |-> Nil, after |-> Nil, err |-> "File cannot be read"]
       ELSE IF beforeFile # NoFile /\ b.err # ""
       THEN [before |-> Nil, after |-> Nil, err |-> "File cannot be read"]
       ELSE [before |-> IF beforeFile # NoFile THEN b.wf ELSE Nil, after |-> a.wf, err |-> ""]

\* A faulty variant of the condition: the operator's answer is not awaited.
shouldUpdateUnasked(updateReview, answer) == updateReview

\* *updateReview && askUpdateReviews(), with the answer the operator gives
\* when asked.
shouldUpdate(updateReview, answer) == updateReview /\ answer

InitReporter ==
    /\ rptFlags \in ReporterFlags
    /\ reviewStore \in InitialStores
    /\ disk \in ReporterDisks
    /\ lastOp = Op("none", "", "", reviewStore, Nil, Nil, "", "", {})
    /\ loadedWalk = Nil
    /\ rptPc = "start"
    /\ rptWalks = [before |-> Nil, after |-> Nil]
    /\ rptReport = NoReport("none", "")
    /\ rptOut = <<>>
    /\ rptAnswer = Nil
    /\ PathAtRest
    /\ CmpAtRest
    /\ RunAtRest

\* log.Fatal: the message is printed and the process exits.
Fatal(msg) ==
    /\ rptPc' = "fatal"
    /\ rptOut' = Append(rptOut, msg)

\* main, up to the Reporter it builds from the config file.
MainLoadConfig ==
    /\ rptPc = "start"
    /\ IF rptFlags.configFile = "" THEN Fatal("-c needs to be specified")
       ELSE IF rptFlags.configFile = "bad" THEN Fatal("cannot decode the config file")
       ELSE rptPc' = "walks" /\ UNCHANGED rptOut
    /\ UNCHANGED <<rptFlags, rptWalks, rptReport, rptAnswer, trustVars>>

\* main loads the two walks, by host or by file names.
MainLoadWalks ==
    /\ rptPc = "walks"
    /\ LET f == rptFlags
          byLatest == f.hostname # "" /\ f.reviewFile # "" /\ f.walkPath # ""
          loaded == IF byLatest THEN walksByLatest(reviewStore, disk, f.hostname)
                    ELSE walksByFiles(disk, f.beforeFile, f.afterFile)
       IN IF byLatest /\ (f.afterFile # NoFile \/ f.beforeFile # NoFile)
          THEN Fatal("mutually exclusive") /\ UNCHANGED rptWalks
          ELSE IF ~byLatest /\ f.afterFile = NoFile
          THEN Fatal("need to be specified") /\ UNCHANGED rptWalks
          ELSE IF loaded.err # ""
          THEN Fatal(loaded.err) /\ UNCHANGED rptWalks
          ELSE /\ rptPc' = "compare"
               /\ rptWalks' = [before |-> loaded.before, after |-> loaded.after]
               /\ UNCHANGED rptOut
    /\ UNCHANGED <<rptFlags, rptReport, rptAnswer, trustVars>>

\* The Walk of a loaded WalkFile, nil when there is none.
WalkOf(wf) == IF wf = Nil THEN Nil ELSE Some(wf[1].Walk)

\* main compares them.
MainCompare ==
    /\ rptPc = "compare"
    /\ rptReport' = Compare(WalkOf(rptWalks.before), WalkOf(rptWalks.after), <<>>)
    /\ IF rptReport'.kind = "error" THEN Fatal(rptReport'.err)
       ELSE IF rptReport'.kind = "panic" THEN rptPc' = "crashed" /\ UNCHANGED rptOut
       ELSE rptPc' = "print" /\ UNCHANGED rptOut
    /\ UNCHANGED <<rptFlags, rptWalks, rptAnswer, trustVars>>

\* main prints the report and the metrics.
MainPrint ==
    /\ rptPc = "print"
    /\ rptPc' = "update"
    /\ rptOut' = rptOut
                 \o (IF rptWalks.before = Nil THEN <<"No before walk found">> ELSE <<>>)
                 \o <<"report", "Metrics:">>
    /\ UNCHANGED <<rptFlags, rptWalks, rptReport, rptAnswer, trustVars>>

\* The end of main, up to the wait for the operator: with update-review set
\* askUpdateReviews prints its prompt and blocks in fmt.Scanln; without it
\* main prints that the review file is not updated and returns.
MainUpdateReview ==
    /\ rptPc = "update"
    /\ IF rptFlags.updateReview
       THEN /\ rptPc' = "ask"
            /\ rptOut' = Append(rptOut, "Do you want to update")
       ELSE /\ rptPc' = "done"
            /\ rptOut' = Append(rptOut, "not updating reviews file")
    /\ UNCHANGED <<rptFlags, rptWalks, rptReport, rptAnswer, trustVars>>

\* The operator answers: on a yes main calls UpdateReviewProto with the
\* after walk it loaded, otherwise it prints that the review file is not
\* updated.
MainAnswer ==
    /\ rptPc = "ask"
    /\ \E answer \in BOOLEAN :
          LET u == UpdateReviewProto(reviewStore, rptWalks.after[1], rptFlags.reviewFile)
          IN /\ rptAnswer' = Some(answer)
             /\ IF shouldUpdate(rptFlags.updateReview, answer)
                THEN /\ reviewStore' = u.store
                     /\ lastOp' = Op("UpdateReviewProto", rptWalks.after[1].Walk.Hostname,
                                     rptFlags.reviewFile, reviewStore, rptWalks.after, Nil,
                                     u.outcome, u.err, {})
                     /\ rptPc' = IF u.outcome = "ok" THEN "done"
                                 ELSE IF u.outcome = "panic" THEN "crashed" ELSE "fatal"
                     /\ rptOut' = rptOut \o (IF u.outcome = "error" THEN <<u.err>> ELSE <<>>)
                ELSE /\ rptPc' = "done"
                     /\ rptOut' = Append(rptOut, "not updating reviews file")
                     /\ UNCHANGED <<reviewStore, lastOp>>
    /\ UNCHANGED <<rptFlags, rptWalks, rptReport, disk, loadedWalk>>

\* While main waits for the operator a walk file may be replaced on the disk.
\* (Main reads no walk file after it has loaded its walks, and a replacement
\* before the load is another disk to start from.)
NextReporter ==
    /\ \/ MainLoadConfig
       \/ MainLoadWalks
       \/ MainCompare
       \/ MainPrint
       \/ MainUpdateReview
       \/ MainAnswer
       \/ rptPc = "ask" /\ ReplaceWalkFile /\ UNCHANGED rptVars
    /\ UNCHANGED <<pathVars, cmpVars, runVars>>

SpecReporter == InitReporter /\ [][NextReporter]_vars

\* What main printed.
Printed(line) == \E i \in 1..Len(rptOut) : rptOut[i] = line

\* The review file is not as the run found it.
ReviewStoreWritten == reviewStore # lastOp.storeBefore

\* C23: in every run of the reporter the review file differs from what the
\* run found only if update-review is set, the operator answered yes at the
\* prompt, Compare had returned a report and the report had been printed;
\* a run that ended in a failed load or a failed comparison, or whose
\* prompt was declined or never shown, has left the review file as it was.
C23_ReviewStoreWrittenOnlyOnConfirmation ==
    /\ ReviewStoreWritten =>
          /\ rptFlags.updateReview
          /\ rptAnswer = Some(TRUE)
          /\ rptReport.kind = "report"
          /\ Printed("report")
          /\ lastOp.op = "UpdateReviewProto"
    /\ (rptPc \in {"fatal", "done", "crashed"}
          /\ (rptReport.kind # "report" \/ rptAnswer # Some(TRUE))) =>
          (reviewStore = lastOp.storeBefore /\ lastOp.op # "UpdateReviewProto")

\* A run that wrote the review file after a yes, with runs that ended in a
\* failed load, a failed comparison and a declined prompt beside it.
C23_Witness ==
    /\ rptPc = "done"
    /\ ReviewStoreWritten
    /\ rptAnswer = Some(TRUE)
    /\ "h1" \in DOMAIN reviewStore.review
    /\ reviewStore.review["h1"].WalkID = "w2"

\* ------------------------------------------------------------------------
\* SpecNormalize: NormalizePath applied to every path within the bounds and
\* either directory flag, and then to its own result.

\* The characters the paths are drawn from: with the dot, so that Clean has
\* "." and ".." elements to remove.
NormChars == {Separator, "a", "."}
NormPaths == SeqsUpTo(NormChars, MaxPathLen)

\* How often NormalizePath is applied in a row.
MaxApplications == 2

InitNormalize ==
    /\ path \in NormPaths
    /\ normIsDir \in BOOLEAN
    /\ normalized = <<>>
    /\ pathOp = "idle"
    /\ excluded = <<>>
    /\ exclRes = FALSE
    /\ CmpAtRest
    /\ TrustAtRest
    /\ RunAtRest
    /\ RptAtRest

\* NormalizePath on the path, or on what the call before returned.
CallNormalizePath ==
    /\ Len(normalized) < MaxApplications
    /\ pathOp' = "NormalizePath"
    /\ normalized' =
          Append(normalized,
                 NormalizePath(IF normalized = <<>> THEN path ELSE normalized[Len(normalized)],
                               normIsDir))
    /\ UNCHANGED <<path, normIsDir, excluded, exclRes>>

NextNormalize == CallNormalizePath /\ UNCHANGED <<cmpVars, trustVars, runVars, rptVars>>

SpecNormalize == InitNormalize /\ [][NextNormalize]_vars

\* C24: NormalizePath is idempotent. For every path p and directory flag d,
\* NormalizePath(NormalizePath(p, d), d) = NormalizePath(p, d).
C24_NormalizeIdempotent ==
    Len(normalized) >= 2 =>
        /\ normalized[1] = NormalizePath(path, normIsDir)
        /\ normalized[2] = normalized[1]

\* A directory path with a ".." element and doubled separators, which the
\* first application changed and the second left alone.
C24_Witness ==
    /\ Len(normalized) = 2
    /\ normIsDir
    /\ path = <<"a", "/", ".", ".">>
    /\ normalized[1] = <<".", Separator>>
    /\ normalized[1] # path

\* ------------------------------------------------------------------------
\* C25..C27: the workers of a Run.

\* The workers between walkMu.Lock and the deferred Unlock of process.
InCriticalSection == {w \in Workers : wk[w].pc = "append"}

\* The positions of a worker where it opens, reads, hashes or stats a file,
\* or sends on errCh.
IOPositions == {"hash", "sendHashErr", "stat", "sendStatErr"}

\* C25: at most one worker at a time is between Lock and Unlock, where
\* process appends to walk.File and updates the Counter; that worker is the
\* holder of walkMu, and it is not hashing or stat'ing a file, has no error
\* left to send on errCh and has its File converted. walk.File and the
\* Counter change only in a step of the holder.
C25_InventoryLockExclusive ==
    [][/\ Cardinality(InCriticalSection) <= 1
       /\ \A w \in Workers :
             /\ wk[w].pc = "append" <=> walkMu = w
             /\ walkMu = w =>
                   /\ wk[w].pc \notin IOPositions
                   /\ wk[w].pending = Nil
                   /\ wk[w].f # Nil
       /\ ((walk # Nil /\ walk' # Nil /\ walk'[1].File # walk[1].File) \/ counter' # counter) =>
             /\ walkMu \in Workers
             /\ walkMu' = 0
             /\ \A v \in Workers \ {walkMu} : wk'[v] = wk[v]]_vars

\* A worker holds walkMu while the other waits for it with its File converted.
C25_Witness ==
    \E w, v \in Workers :
        /\ w # v
        /\ walkMu = w
        /\ wk[w].pc = "append"
        /\ wk[v].pc = "lock"

\* Counter.Get: the value of a metric, 0 when the metric does not exist.
MetricValue(c, name) == IF name \in DOMAIN c THEN c[name] ELSE 0

RECURSIVE SizeSum(_)
SizeSum(files) == IF files = <<>> THEN 0 ELSE Head(files).Info.Size + SizeSum(Tail(files))

\* C26: when Run hands the walk to the callback, dir-count is the number of
\* its directory records and file-count the number of the others, so that
\* together they count the File records; file-size-sum is the sum of the
\* Info sizes; file-hash-count is the number of records with a Fingerprint;
\* file-stat-errors is the number of records without a Stat, and that metric
\* does not exist when there is none.
C26_CounterMatchesInventory ==
    CallbackInvoked =>
        LET fs == CallbackFiles
            dirs == SelectSeq(fs, LAMBDA f : f.Info.IsDir)
            hashed == SelectSeq(fs, LAMBDA f : f.Fingerprint # <<>>)
            statless == SelectSeq(fs, LAMBDA f : f.Stat = Nil)
        IN /\ MetricValue(counter, "dir-count") = Len(dirs)
           /\ MetricValue(counter, "file-count") = Len(fs) - Len(dirs)
           /\ MetricValue(counter, "dir-count") + MetricValue(counter, "file-count") = Len(fs)
           /\ MetricValue(counter, "file-size-sum") = SizeSum(fs)
           /\ MetricValue(counter, "file-hash-count") = Len(hashed)
           /\ MetricValue(counter, "file-stat-errors") = Len(statless)
           /\ "file-stat-errors" \in DOMAIN counter <=> statless # <<>>

\* A walk handed to the callback with directories, files of three bytes in
\* all, a fingerprint and a record without a Stat.
C26_Witness ==
    /\ CallbackInvoked
    /\ MetricValue(counter, "dir-count") = 2
    /\ MetricValue(counter, "file-count") = 2
    /\ MetricValue(counter, "file-size-sum") = 3
    /\ MetricValue(counter, "file-hash-count") = 1
    /\ MetricValue(counter, "file-stat-errors") = 1

\* The File records of the walk are in the order the traversal queued their entries.
InTraversalOrder ==
    \A i \in 1..Len(CallbackFiles) :
        i <= Len(SentEntries) /\ CallbackFiles[i].Path = Clean(SentEntries[i].path)

\* C27: the walk handed to the callback holds exactly one File record for
\* each entry the traversal sent on fileCh, and no other record: none is
\* lost and none is duplicated, in whatever order the workers finished.
C27_OneRecordPerEntry ==
    CallbackInvoked =>
        /\ Len(CallbackFiles) = Len(SentEntries)
        /\ \A i \in 1..Len(SentEntries) :
              Len(RecordsAt(callbacks[1], Clean(SentEntries[i].path))) = 1
        /\ \A i \in 1..Len(CallbackFiles) :
              \E j \in 1..Len(SentEntries) :
                  CallbackFiles[i].Path = Clean(SentEntries[j].path)

\* A walk handed to the callback with a record for each of four entries,
\* not in the order of the traversal.
C27_Witness ==
    /\ CallbackInvoked
    /\ Len(SentEntries) = 4
    /\ Len(CallbackFiles) = 4
    /\ ~InTraversalOrder

\* ------------------------------------------------------------------------
\* C28, C29: the end of Run and of the goroutines it started.

\* Whether the goroutine that called Run can take a step: it is not waiting
\* for room in fileCh, for the workers or for the collector, and has not
\* returned.
MainCanStep ==
    \/ mainPc \in {"start", "closeFileCh", "notify", "callback"}
    \/ /\ mainPc = "walk"
       /\ \/ rootIdx > Len(pol.Include)
          \/ entryIdx = 0
          \/ entryIdx > Len(roots[Origin].entries)
          \/ visit(pol, verbose, Origin, roots[Origin].dev,
                   roots[Origin].entries[entryIdx]).emit => Len(fileCh) < FileChCap
    \/ mainPc = "wgWait" /\ wgDone
    \/ mainPc = "waitDone" /\ cpc = "sendDone"

\* Whether worker w can take a step: it is not waiting for a file, for the
\* collector to receive its error or for walkMu, and has not finished.
WorkerCanStep(w) ==
    /\ Alive
    /\ \/ wk[w].pc = "recv" /\ (fileCh # <<>> \/ fileChClosed)
       \/ wk[w].pc \in {"hash", "stat"}
       \/ wk[w].pc \in {"sendHashErr", "sendStatErr"} /\ (errChClosed \/ cpc = "recv")
       \/ wk[w].pc = "lock" /\ ((verbose /\ wk[w].f[1].Stat = Nil) \/ walkMu = 0)
       \/ wk[w].pc = "append" /\ walkMu = w

\* Whether the collector can take a step on its own: it has an error to
\* append, or its range over the closed errCh ends.
CollectorCanStep ==
    /\ Alive
    /\ \/ cpc = "append"
       \/ cpc = "recv" /\ errChClosed

\* Some goroutine of the Run can take a step.
CanStep == MainCanStep \/ (\E w \in Workers : WorkerCanStep(w)) \/ CollectorCanStep

\* C28 as stated: Run eventually returns, whatever the file tree, the
\* errors of its entries and the interleaving of the traversal, the workers
\* and the error collector. Every step of a Run uses up an entry, a queued
\* file, a pending error or a position of a goroutine, so a Run goes on
\* for ever only by stopping: as long as Run has not returned, some
\* goroutine of it can take a step.
C28_RunEventuallyReturns == mainPc = "returned" \/ CanStep

\* The traversal, the workers and the collector never wait for one another
\* for ever: a Run that has stopped short of returning has panicked.
RunNeverDeadlocks == mainPc \in {"returned", "crashed"} \/ CanStep

\* A worker goroutine that was started and has not returned from worker.
WorkerRunning(w) == wk[w].pc \notin {"idle", "done"}

\* The collector goroutine was started; its function has no return, so it
\* is receiving from errCh, appending an error or sending on done.
CollectorRunning == cpc \in {"recv", "append", "sendDone"}

\* C29 as stated: when Run has returned, every goroutine it started has
\* terminated, each worker and the error collector; none remains blocked on
\* a channel.
C29_GoroutinesTerminated ==
    mainPc = "returned" =>
        /\ \A w \in Workers : ~WorkerRunning(w)
        /\ ~CollectorRunning

\* ------------------------------------------------------------------------
\* C30: a file with a Stat in one inventory only.

\* The pair of File records that Compare diffs has a Stat on one side only.
OneSidedStat == (FileBefore.Stat = Nil) # (FileAfter.Stat = Nil)

\* C30 as stated: for inventories that pass sanityCheck, Compare returns a
\* report even when a file that is in both and not excluded has a Stat in
\* one of them only; the file is in Modified, in Errors or in neither, and
\* the comparison is not aborted.
C30_OneSidedStatReported ==
    ( /\ cmpPc = "done"
      /\ sanityCheck(before, after) = ""
      /\ configExclude = <<>>
      /\ FileBefore.Info.IsDir = FileAfter.Info.IsDir
      /\ OneSidedStat ) =>
        /\ cmpRes.kind = "report"
        /\ Len(cmpRes.Modified) + Len(cmpRes.Errors) <= 1
        /\ cmpRes.Added = <<>> /\ cmpRes.Deleted = <<>>

====
